---- MODULE Spec2Model ----
(***************************************************************************)
(* Model of the Modbus polling driver                                      *)
(*   src/com/hnw/ai/module/driver/mod/modbus/modbus_tcp/modbus_tcp_driver.py *)
(* ModbusTCPDriver: start_listen / stop, _read_signals_once, _read_exact   *)
(* and the register decoders.  A label Lnnn names line nnn of that file.   *)
(***************************************************************************)
EXTENDS Integers, Sequences, FiniteSets, TLC

VARIABLES
    \* ---- fields of one ModbusTCPDriver instance (lines 49-57)
    signals,       \* _signals: sequence of signal descriptors
    word_order,    \* _word_order
    byte_order,    \* _byte_order
    address_limit, \* _address_limit: <<>> is None, <<L>> is the limit L
    client,        \* _client: 0 is None, otherwise the id of a client object
    stop_flag,     \* _stop_flag
    listening,     \* _listening
    \* ---- the ModbusTcpClient objects
    connected,     \* ids of the client objects whose socket is open
    \* ---- the threads executing start_listen
    pc,            \* per thread: "idle" or the line it is about to execute
    gen,           \* per thread: frame of the running _read_signals_once generator
    val,           \* per thread: value of the payload yielded to the for-loop
    \* ---- history of the cycle in progress (observation only)
    log,           \* per thread: register requests issued in the current cycle
    out,           \* per thread: payloads handed to on_signal in the current cycle
    stopreq,       \* per thread: stop() was called while its loop was running
    cbraised,      \* per thread: "no", or on_signal first raised in "this"/an "earlier" cycle
    loopexit,      \* per thread: "none", or why the while loop was left
    \* ---- decoder harness
    d_sig,         \* descriptor being decoded
    d_regs,        \* register list of the response
    d_raw,         \* decoded integer (NoValue before the decoder has run)
    d_out,         \* payload value (NoValue before the decoder has run)
    \* ---- endpoint and transport
    port,          \* _port (host, unit id and driver_id are set along with it)
    peer,          \* per client object: the port it was constructed for
    lost,          \* the transport is down: every request raises an I/O error
    stamp,         \* per thread: the port written into the payload just yielded
    ret,           \* per thread: "" or what its last start_listen call returned
    \* ---- the thread executing configure
    cfg,           \* frame of the configure call: line, argument, locals, result
    \* ---- the clock
    timed,         \* the behaviour follows the clock (else `now` stands still)
    now,           \* time.time(), in ticks
    ts,            \* per thread: the ts local of the cycle in progress (line 151)
    last,          \* per thread: timestamp of the latest earlier cycle that delivered
    \* ---- the caller of connect
    host,          \* _host
    conn,          \* argument and result of the last connect call
    \* ---- the serial (RTU) driver
    rtu,           \* its fields, the position of its loop, and the cycle's history
    \* ---- identity and the callers above the driver
    driver_id,     \* driver_id
    early,         \* per thread: stop() was called after it invoked start_listen
                   \* and before its loop began
    ctl,           \* DriverController: _started, and its calls in progress
    gw             \* UiGateway and its WorkflowControllers

dvars == <<d_sig, d_regs, d_raw, d_out>>
xvars == <<port, peer, lost, stamp, ret, cfg>>
tvars == <<timed, now, ts, last>>
yvars == <<timed, now, ts, last, host, conn, rtu, driver_id, early, ctl, gw>>
schema == <<signals, word_order, byte_order, address_limit>>
vars == <<signals, word_order, byte_order, address_limit, client, stop_flag,
          listening, connected, pc, gen, val, log, out, stopreq,
          cbraised, loopexit, d_sig, d_regs, d_raw, d_out,
          port, peer, lost, stamp, ret, cfg,
          timed, now, ts, last, host, conn, rtu, driver_id, early, ctl, gw>>

Threads == {"t1", "t2"}

\* The thread that calls read(), and every thread that runs the generator.
Readers == {"r1"}
Callers == Threads \cup Readers

\* Last tick of the clock the timed behaviours run to.
MaxClock == 3

\* Longest descriptor list the schemas are drawn from.
MaxSignals == 2

NoValue == -1

Max(a, b) == IF a >= b THEN a ELSE b
Orders == {"big", "little"}

(***************************************************************************)
(* Register decoding (lines 271-291).  x & 0xFFFF is x % 65536, a shift by *)
(* 8 or 16 is a multiplication, and | of disjoint bit fields is a sum.     *)
(***************************************************************************)
_swap_bytes_16(w) == ((w % 256) * 256) + ((w \div 256) % 256)

\* Variant: the byte swap follows word_order instead of byte_order.
_read_u16_wrong_axis(regs, idx) ==
    LET w == regs[idx + 1] % 65536
    IN  IF word_order = "little" THEN _swap_bytes_16(w) ELSE w

_read_u16_from_regs(regs, idx) ==
    LET w == regs[idx + 1] % 65536
    IN  IF byte_order = "little" THEN _swap_bytes_16(w) ELSE w

\* Variant: only the first word is byte-swapped.
_read_u32_swap_first_only(regs, idx) ==
    LET r0 == regs[idx + 1] % 65536
        r1 == regs[idx + 2] % 65536
        w0 == IF byte_order = "little" THEN _swap_bytes_16(r0) ELSE r0
        words == IF word_order = "little" THEN <<r1, w0>> ELSE <<w0, r1>>
    IN  ((words[1] % 65536) * 65536) + (words[2] % 65536)

_read_u32_from_regs(regs, idx) ==
    LET r0 == regs[idx + 1] % 65536
        r1 == regs[idx + 2] % 65536
        w0 == IF byte_order = "little" THEN _swap_bytes_16(r0) ELSE r0
        w1 == IF byte_order = "little" THEN _swap_bytes_16(r1) ELSE r1
        words == IF word_order = "little" THEN <<w1, w0>> ELSE <<w0, w1>>
    IN  ((words[1] % 65536) * 65536) + (words[2] % 65536)

(***************************************************************************)
(* The device behind the client: what a successful read of `count`         *)
(* registers at `address` carries.  The two banks hold different words, so *)
(* a value shows which bank it was decoded from.                           *)
(***************************************************************************)
HoldingWord(a) == 258 + a
InputWord(a) == 772 + a

_read_hr(address, count) == [k \in 1..count |-> HoldingWord(address + k - 1)]

\* Variant: the fallback reads the holding bank again.
_read_ir_same_bank(address, count) == _read_hr(address, count)

_read_ir(address, count) == [k \in 1..count |-> InputWord(address + k - 1)]

\* What one register request can come back as: a full response ("ok"), a
\* malformed response whose register list is missing or shorter than asked
\* for ("short"), an error response (ExceptionResponse / isError()), None,
\* or an exception raised by the client (I/O error, timeout).
Outcomes == {"ok", "short", "err", "none", "raise"}

\* Line 183 / 185: the responses _one_round treats as a failed read.
IsFailed(kind) == kind \in {"none", "err"}

\* Lines 216-222: the boundary guard; TRUE when the signal is skipped.
\* Variant: the two-word guard tests the first offset only.
OutOfRangeFirstOffset(limit, addr, leng) ==
    /\ limit # <<>>
    /\ ~(0 <= addr /\ addr <= limit[1])

OutOfRange(limit, addr, leng) ==
    /\ limit # <<>>
    /\ \/ leng = 1 /\ ~(0 <= addr /\ addr <= limit[1])
       \/ leng = 2 /\ ~(0 <= addr /\ addr + 1 <= limit[1])

\* Variant: every positive length is read.
SupportedAny(leng) == leng > 0

\* Lines 225, 236, 248-250: the lengths _read_signals_once reads; any other
\* length takes the else branch, which logs and continues.
Supported(leng) == leng \in {1, 2}

\* Variant: a descriptor without scale is scaled by 0.
ScaleMissingIsZero(s) == IF "scale" \in DOMAIN s THEN s.scale ELSE 0

\* Line 213: scale = _to_float(s.get("scale", 1.0))
Scale(s) == IF "scale" \in DOMAIN s THEN s.scale ELSE 1

\* Lines 233-234 and 245-246: decode the registers and scale.
Value(s, regs) ==
    IF s.length = 1 THEN _read_u16_from_regs(regs, 0) * Scale(s)
                    ELSE _read_u32_from_regs(regs, 0) * Scale(s)

(***************************************************************************)
(* Control flow helpers                                                    *)
(***************************************************************************)
\* Lines 136-140: the thread has entered start_listen and has not yet
\* executed `self._stop_flag = False`.
BeforeClear == {"L136", "L140"}

\* Lines 150-158: the thread is inside the while loop of start_listen.
LoopLines == {"L150", "L153", "L207", "L182", "L184", "L155", "L158"}
InLoop(t) == pc[t] \in LoopLines

\* The except clause that catches an exception raised by a register read
\* (inside _read_signals_once, lines 224-254) and by on_signal (lines
\* 154-157).  "L159" is the clause around the while loop (lines 159-160).
\* Variant: no inner clause, the exception reaches the outer one.
OuterHandler == "L159"
OuterHandlerCb == "L159"

ReadHandler == "L252"
CallbackHandler == "L156"

NoGen == [cli |-> 0, lim |-> <<>>, sigs |-> <<>>, i |-> 0]

\* Variant: the list is walked from its end.
CurReversed(t) == gen[t].sigs[Len(gen[t].sigs) + 1 - gen[t].i]

\* Line 207: the descriptor `s` of the running iteration.
Cur(t) == gen[t].sigs[gen[t].i]

\* Variant: the iteration also ends when stop() has been called.
EndOfListOrStop(t) == gen[t].i > Len(gen[t].sigs) \/ stop_flag

\* Line 207: the for-loop over the descriptor list is exhausted.
EndOfList(t) == gen[t].i > Len(gen[t].sigs)

\* `continue` at lines 219, 222, 228, 232, 240, 244, 250, 254: next descriptor.
Continue(t) ==
    /\ gen' = [gen EXCEPT ![t].i = @ + 1]
    /\ pc' = [pc EXCEPT ![t] = "L207"]
    /\ UNCHANGED loopexit

\* An exception caught by `handler`: the inner clauses log and go on with
\* the next descriptor, the outer one (L159) leaves the loop for `finally`.
Caught(t, handler) ==
    IF handler = "L159"
    THEN /\ pc' = [pc EXCEPT ![t] = "L163"]
         /\ loopexit' = [loopexit EXCEPT ![t] = "error"]
         /\ UNCHANGED gen
    ELSE Continue(t)

\* Variant: _read_exact is called with retry=True.
RetryPassed == TRUE

\* Line 180: the retry parameter of _read_exact; no call passes it (lines
\* 226, 238), so it has its default.
Retry == FALSE

\* Variant: a failed round is run again and again.
RoundsThree(retry) == 3

\* Lines 190-199: rounds of holding + input reads _read_exact may run.
MaxRounds(retry) == IF retry THEN 2 ELSE 1

\* Rounds started so far for the current descriptor in this cycle.
RoundsDone(t) ==
    Cardinality({ k \in 1..Len(log[t]) :
                     log[t][k].sig = gen[t].i /\ log[t][k].bank = "HR" })

\* The record of one register request; `clk` is the clock when it is issued.
Request(t, bank, res) ==
    [sig |-> gen[t].i, bank |-> bank, addr |-> Cur(t).address,
     count |-> Cur(t).length, res |-> res, clk |-> now]

\* Variant: the payload is stamped when it is built.
PayloadTsNow(t) == now

\* Lines 151, 153, 257: the payload's "timestamp" is the ts argument of
\* _read_signals_once, taken by start_listen at the top of the cycle.
PayloadTs(t) == ts[t]

\* A read on None raises AttributeError, a read over a lost transport raises
\* an I/O error; otherwise a read on a client object can come back as any
\* outcome (the device and the network decide).
ReadOutcomes(c) == IF c = 0 \/ lost THEN {"raise"} ELSE Outcomes

\* Lines 138, 144, 168: start_listen has no return value on any of its paths.
ReturnsNone == "None"

(***************************************************************************)
(* Client objects.  An object is alive while the driver's field or a       *)
(* running generator refers to it; when the last reference goes, the       *)
(* object is destroyed and its socket closed (reference counting), so its  *)
(* id can name the next object constructed.                                *)
(***************************************************************************)
ClientIds == 1..(Cardinality(Callers) + 2)

Referenced(cl, g) == ({cl} \cup {g[u].cli : u \in Callers}) \ {0}

FreshClient == CHOOSE c \in ClientIds : c \notin Referenced(client, gen)

(***************************************************************************)
(* start_listen (lines 134-168), one action per line that touches the      *)
(* driver's fields or blocks                                               *)
(***************************************************************************)
\* The fields of the driver and of its threads.
driverfields ==
    <<schema, client, stop_flag, listening, connected, pc, gen, val, log,
      out, stopreq, cbraised, loopexit, dvars, xvars, tvars, host, conn,
      driver_id, early>>

\* Line 134: control enters start_listen(on_signal) on thread t.
Invoke(t) ==
    /\ pc[t] = "idle"
    /\ pc' = [pc EXCEPT ![t] = "L136"]
    /\ ret' = [ret EXCEPT ![t] = ""]
    /\ early' = [early EXCEPT ![t] = FALSE]
    /\ UNCHANGED <<schema, client, stop_flag, listening, connected,
                   gen, val, log, out, stopreq, cbraised, loopexit, dvars,
                   tvars, host, conn, rtu, driver_id, gw,
                   port, peer, lost, stamp, cfg>>

\* A thread calls start_listen(on_signal) on the driver itself.
Call(t) == Invoke(t) /\ UNCHANGED ctl

\* Lines 136-138: if self._listening: return
L136(t) ==
    /\ pc[t] = "L136"
    /\ pc' = [pc EXCEPT ![t] = IF listening THEN "idle" ELSE "L140"]
    /\ ret' = [ret EXCEPT ![t] = IF listening THEN ReturnsNone ELSE @]
    /\ UNCHANGED <<schema, client, stop_flag, listening, connected,
                   gen, val, log, out, stopreq, cbraised, loopexit, dvars, yvars,
                   port, peer, lost, stamp, cfg>>

\* Line 140: self._stop_flag = False
L140(t) ==
    /\ pc[t] = "L140"
    /\ stop_flag' = FALSE
    /\ pc' = [pc EXCEPT ![t] = "L141"]
    /\ UNCHANGED <<schema, client, listening, connected,
                   gen, val, log, out, stopreq, cbraised, loopexit, dvars, yvars, xvars>>

\* Line 141: self._client = ModbusTcpClient(host=self._host, port=self._port).
\* The object the field held loses that reference.
L141(t) ==
    /\ pc[t] = "L141"
    /\ client' = FreshClient
    /\ peer' = [peer EXCEPT ![FreshClient] = port]
    /\ connected' = connected \cap Referenced(client', gen)
    /\ pc' = [pc EXCEPT ![t] = "L142"]
    /\ UNCHANGED <<schema, stop_flag, listening,
                   gen, val, log, out, stopreq, cbraised, loopexit, dvars, yvars,
                   port, lost, stamp, ret, cfg>>

\* Lines 142-144: if not self._client.connect(): return.  The field is read
\* again here; on None the AttributeError leaves start_listen.  connect()
\* cannot succeed while the transport is down.
L142(t) ==
    /\ pc[t] = "L142"
    /\ \/ /\ client = 0
          /\ pc' = [pc EXCEPT ![t] = "idle"]
          /\ ret' = [ret EXCEPT ![t] = "AttributeError"]
          /\ UNCHANGED connected
       \/ /\ client # 0
          /\ \E ok \in (IF lost THEN {FALSE} ELSE BOOLEAN) :
                IF ok
                THEN /\ connected' = connected \cup {client}
                     /\ pc' = [pc EXCEPT ![t] = "L146"]
                     /\ UNCHANGED ret
                ELSE /\ pc' = [pc EXCEPT ![t] = "idle"]
                     /\ ret' = [ret EXCEPT ![t] = ReturnsNone]
                     /\ UNCHANGED connected
    /\ UNCHANGED <<schema, client, stop_flag, listening,
                   gen, val, log, out, stopreq, cbraised, loopexit, dvars, yvars,
                   port, peer, lost, stamp, cfg>>

\* Line 146: self._listening = True
L146(t) ==
    /\ pc[t] = "L146"
    /\ listening' = TRUE
    /\ pc' = [pc EXCEPT ![t] = "L150"]
    /\ UNCHANGED <<schema, client, stop_flag, connected,
                   gen, val, log, out, stopreq, cbraised, loopexit, dvars, yvars, xvars>>

\* Lines 150-151: while not self._stop_flag: ts = time.time().  The history
\* of the previous cycle is dropped here, but for its timestamp.
L150(t) ==
    /\ pc[t] = "L150"
    /\ IF stop_flag
       THEN /\ pc' = [pc EXCEPT ![t] = "L163"]
            /\ loopexit' = [loopexit EXCEPT ![t] = "stop"]
            /\ UNCHANGED <<cbraised, ts, last>>
       ELSE /\ pc' = [pc EXCEPT ![t] = "L153"]
            /\ cbraised' = [cbraised EXCEPT ![t] = IF @ = "no" THEN "no" ELSE "earlier"]
            /\ ts' = [ts EXCEPT ![t] = IF timed THEN now ELSE @]
            /\ last' = [last EXCEPT ![t] = IF out[t] # <<>> THEN Max(@, ts[t]) ELSE @]
            /\ UNCHANGED loopexit
    /\ gen' = [gen EXCEPT ![t] = NoGen]
    /\ val' = [val EXCEPT ![t] = NoValue]
    /\ log' = [log EXCEPT ![t] = <<>>]
    /\ out' = [out EXCEPT ![t] = <<>>]
    /\ UNCHANGED <<schema, client, stop_flag, listening, connected,
                   stopreq, dvars, timed, now, host, conn, rtu, driver_id,
                   early, ctl, gw, xvars>>

\* Lines 153, 206-207: the generator is created on self._client and starts
\* with the limit and the descriptor list of that moment.
L153(t) ==
    /\ pc[t] = "L153"
    /\ gen' = [gen EXCEPT ![t] = [cli |-> client, lim |-> address_limit,
                                  sigs |-> signals, i |-> 1]]
    /\ pc' = [pc EXCEPT ![t] = "L207"]
    /\ UNCHANGED <<schema, client, stop_flag, listening, connected,
                   val, log, out, stopreq, cbraised, loopexit, dvars, yvars, xvars>>

\* Lines 207-222, 225, 236, 248-250: next descriptor, boundary guard and
\* length dispatch; when the list is exhausted the for-loop ends (line 158)
\* and the generator, with its reference to the client, is released.
L207(t) ==
    /\ pc[t] = "L207"
    /\ IF EndOfList(t)
       THEN /\ pc' = [pc EXCEPT ![t] = "L158"]
            /\ gen' = [gen EXCEPT ![t].cli = 0]
            /\ connected' = connected \cap Referenced(client, gen')
       ELSE IF \/ OutOfRange(gen[t].lim, Cur(t).address, Cur(t).length)
               \/ ~Supported(Cur(t).length)
            THEN /\ gen' = [gen EXCEPT ![t].i = @ + 1]
                 /\ pc' = [pc EXCEPT ![t] = "L207"]
                 /\ UNCHANGED connected
            ELSE /\ pc' = [pc EXCEPT ![t] = "L182"]
                 /\ UNCHANGED <<gen, connected>>
    /\ UNCHANGED <<schema, client, stop_flag, listening,
                   val, log, out, stopreq, cbraised, loopexit, dvars, yvars, xvars>>

\* Variant: a response of exactly `length` registers is taken for a short
\* one and skipped.
DecodedExactSkipped(t, kind, regs) ==
    /\ Continue(t)
    /\ UNCHANGED val

\* After _read_exact has returned a response that is not None (lines
\* 227-234, 239-246): registers missing or too few -> continue, else decode.
Decoded(t, kind, regs) ==
    IF kind = "ok"
    THEN /\ val' = [val EXCEPT ![t] = Value(Cur(t), regs)]
         /\ pc' = [pc EXCEPT ![t] = "L155"]
         /\ UNCHANGED <<gen, loopexit>>
    ELSE /\ Continue(t)
         /\ UNCHANGED val

\* Line 182: the holding-register read of _one_round.  A full response is
\* decoded and yielded in a payload that carries self._port (lines 256-268).
L182(t) ==
    /\ pc[t] = "L182"
    /\ \E res \in ReadOutcomes(gen[t].cli) :
          /\ log' = [log EXCEPT ![t] = Append(@, Request(t, "HR", res))]
          /\ stamp' = [stamp EXCEPT ![t] = IF res = "ok" THEN port ELSE @]
          /\ IF IsFailed(res)
             THEN /\ pc' = [pc EXCEPT ![t] = "L184"]
                  /\ UNCHANGED <<gen, val, loopexit>>
             ELSE IF res = "raise"
             THEN /\ Caught(t, ReadHandler)
                  /\ UNCHANGED val
             ELSE Decoded(t, res, _read_hr(Cur(t).address, Cur(t).length))
    /\ UNCHANGED <<schema, client, stop_flag, listening, connected,
                   out, stopreq, cbraised, dvars, yvars, port, peer, lost, ret, cfg>>

\* Lines 184-187, 190-202: the input-register read; when it fails too, the
\* round has failed: _read_exact sleeps 10 ms and runs one more round if it
\* was called with retry, else it returns None and the descriptor is skipped
\* (lines 227-228).
L184(t) ==
    /\ pc[t] = "L184"
    /\ \E res \in ReadOutcomes(gen[t].cli) :
          /\ log' = [log EXCEPT ![t] = Append(@, Request(t, "IR", res))]
          /\ stamp' = [stamp EXCEPT ![t] = IF res = "ok" THEN port ELSE @]
          /\ IF IsFailed(res)
             THEN IF RoundsDone(t) < MaxRounds(Retry)
                  THEN /\ pc' = [pc EXCEPT ![t] = "L182"]
                       /\ UNCHANGED <<gen, val, loopexit>>
                  ELSE /\ Continue(t)
                       /\ UNCHANGED val
             ELSE IF res = "raise"
             THEN /\ Caught(t, ReadHandler)
                  /\ UNCHANGED val
             ELSE Decoded(t, res, _read_ir(Cur(t).address, Cur(t).length))
    /\ UNCHANGED <<schema, client, stop_flag, listening, connected,
                   out, stopreq, cbraised, dvars, yvars, port, peer, lost, ret, cfg>>

\* Lines 154-157: on_signal(payload), which returns or raises.  The history
\* records, with the payload, how many requests had been issued and whether
\* stop() had been called by then, and the port the cycle's client talks to.
L155(t) ==
    /\ pc[t] = "L155"
    /\ \E cb \in {"returned", "raised"} :
          /\ out' = [out EXCEPT ![t] = Append(@,
                       [sig |-> gen[t].i, name |-> Cur(t).name,
                        value |-> val[t], cb |-> cb,
                        at |-> Len(log[t]), stopped |-> stop_flag,
                        port |-> stamp[t],
                        peer |-> IF gen[t].cli = 0 THEN 0 ELSE peer[gen[t].cli],
                        ts |-> PayloadTs(t)])]
          /\ IF cb = "raised"
             THEN /\ cbraised' = [cbraised EXCEPT ![t] = IF @ = "no" THEN "this" ELSE @]
                  /\ Caught(t, CallbackHandler)
             ELSE /\ Continue(t)
                  /\ UNCHANGED cbraised
    /\ val' = [val EXCEPT ![t] = NoValue]
    /\ stamp' = [stamp EXCEPT ![t] = 0]
    /\ UNCHANGED <<schema, client, stop_flag, listening, connected,
                   log, stopreq, dvars, yvars, port, peer, lost, ret, cfg>>

\* Variant: the clock has not moved when the sleep returns.
ClockStuck(n) == n

\* Line 158: the clock after time.sleep(1.0) is later than before it.
Later(n) == n + 1

\* Time passes while a thread is between two of its steps.
Tick ==
    /\ timed
    /\ now < MaxClock
    /\ now' = now + 1
    /\ UNCHANGED <<schema, client, stop_flag, listening, connected, pc, gen,
                   val, log, out, stopreq, cbraised, loopexit, dvars, xvars,
                   timed, ts, last, host, conn, rtu, driver_id, early, ctl, gw>>

\* Line 158: time.sleep(1.0)
L158(t) ==
    /\ pc[t] = "L158"
    /\ timed => now < MaxClock
    /\ now' = IF timed THEN Later(now) ELSE now
    /\ pc' = [pc EXCEPT ![t] = "L150"]
    /\ UNCHANGED <<schema, client, stop_flag, listening, connected,
                   gen, val, log, out, stopreq, cbraised, loopexit, dvars,
                   timed, ts, last, host, conn, rtu, driver_id, early, ctl,
                   gw, xvars>>

\* Lines 162-165: self._client.close(); on None the AttributeError is swallowed.
L163(t) ==
    /\ pc[t] = "L163"
    /\ connected' = connected \ {client}
    /\ pc' = [pc EXCEPT ![t] = "L166"]
    /\ UNCHANGED <<schema, client, stop_flag, listening,
                   gen, val, log, out, stopreq, cbraised, loopexit, dvars, yvars, xvars>>

\* Line 166: self._client = None
L166(t) ==
    /\ pc[t] = "L166"
    /\ client' = 0
    /\ connected' = connected \cap Referenced(0, gen)
    /\ pc' = [pc EXCEPT ![t] = "L167"]
    /\ UNCHANGED <<schema, stop_flag, listening,
                   gen, val, log, out, stopreq, cbraised, loopexit, dvars, yvars, xvars>>

\* Lines 167-168: self._listening = False, and start_listen returns.
L167(t) ==
    /\ pc[t] = "L167"
    /\ listening' = FALSE
    /\ pc' = [pc EXCEPT ![t] = "idle"]
    /\ gen' = [gen EXCEPT ![t] = NoGen]
    /\ val' = [val EXCEPT ![t] = NoValue]
    /\ log' = [log EXCEPT ![t] = <<>>]
    /\ out' = [out EXCEPT ![t] = <<>>]
    /\ stopreq' = [stopreq EXCEPT ![t] = FALSE]
    /\ cbraised' = [cbraised EXCEPT ![t] = "no"]
    /\ loopexit' = [loopexit EXCEPT ![t] = "none"]
    /\ connected' = connected \cap Referenced(client, gen')
    /\ ret' = [ret EXCEPT ![t] = ReturnsNone]
    /\ ts' = [ts EXCEPT ![t] = 0]
    /\ last' = [last EXCEPT ![t] = 0]
    /\ UNCHANGED <<schema, client, stop_flag, dvars, timed, now, host, conn, rtu,
                   driver_id, early, ctl, gw,
                   port, peer, lost, stamp, cfg>>

\* Variant: stop() flips the flag.
ToggleStop(flag) == ~flag

\* Line 171: self._stop_flag = True, whatever the flag was.
SetStop(flag) == TRUE

\* stop() (lines 170-171), called from any other thread.
Stop ==
    /\ stop_flag' = SetStop(stop_flag)
    /\ stopreq' = [t \in Threads |-> stopreq[t] \/ InLoop(t)]
    /\ UNCHANGED <<schema, client, listening, connected, pc,
                   gen, val, log, out, cbraised, loopexit, dvars, yvars, xvars>>

\* DriverController.start_listen, driver_controller.py line 48: the
\* controller calls the driver's start_listen on thread t, which blocks
\* there for as long as the loop runs.
Ctl48(t) ==
    /\ ~ctl.in
    /\ Invoke(t)
    /\ ctl' = [ctl EXCEPT !.in = TRUE, !.asked = FALSE]

\* driver_controller.py line 49: after the driver's start_listen has
\* returned, self._started = True.
Ctl49(t) ==
    /\ ctl.in
    /\ pc[t] = "idle"
    /\ ret[t] # ""
    /\ ctl' = [ctl EXCEPT !.in = FALSE, !.started = TRUE]
    /\ UNCHANGED <<driverfields, rtu, gw>>

\* DriverController.stop, driver_controller.py lines 51-61, as called for
\* each driver by WorkflowController.stop_listen (workflow_controller.py
\* lines 104-108): the driver's stop() is called only if self._started,
\* and _started is cleared after it.  `asked` notes a stop() made while
\* the controller's start_listen is still executing the driver's loop.
CtlStop ==
    /\ ctl' = [ctl EXCEPT !.started = FALSE,
                          !.asked = @ \/ (ctl.in /\ \E t \in Threads : InLoop(t))]
    /\ stop_flag' = IF ctl.started THEN SetStop(stop_flag) ELSE stop_flag
    /\ stopreq' = IF ctl.started
                  THEN [t \in Threads |-> stopreq[t] \/ InLoop(t)]
                  ELSE stopreq
    /\ UNCHANGED <<schema, client, listening, connected, pc,
                   gen, val, log, out, cbraised, loopexit, dvars,
                   tvars, host, conn, rtu, driver_id, early, gw, xvars>>

\* Lines 170-171 again, with the observer also noting in `early` the
\* threads that have entered start_listen and not yet reached line 140.
StopSeen ==
    /\ stop_flag' = SetStop(stop_flag)
    /\ stopreq' = [t \in Threads |-> stopreq[t] \/ InLoop(t)]
    /\ early' = [t \in Threads |-> early[t] \/ pc[t] \in BeforeClear]
    /\ UNCHANGED <<schema, client, listening, connected, pc,
                   gen, val, log, out, cbraised, loopexit, dvars,
                   tvars, host, conn, rtu, driver_id, ctl, gw, xvars>>

Step(t) ==
    \/ L136(t) \/ L140(t) \/ L141(t) \/ L142(t) \/ L146(t)
    \/ L150(t) \/ L153(t) \/ L207(t) \/ L182(t) \/ L184(t) \/ L155(t)
    \/ L158(t) \/ L163(t) \/ L166(t) \/ L167(t)

(***************************************************************************)
(* read (lines 113-132), executed by a thread of its own.  Its locals      *)
(* `client` and `out` live in gen[r].cli and out[r]; they stay readable    *)
(* after the return, until the thread calls read again.                    *)
(***************************************************************************)
\* Variant: read() polls on the client of the polling loop.
ReadOnLoopClient == client

\* Line 116: client = ModbusTcpClient(host=self._host, port=self._port)
ReadClient == FreshClient

\* A thread calls read().  Line 115: out = []
Read(r) ==
    /\ pc[r] \in {"idle", "returned"}
    /\ pc' = [pc EXCEPT ![r] = "R116"]
    /\ gen' = [gen EXCEPT ![r] = NoGen]
    /\ log' = [log EXCEPT ![r] = <<>>]
    /\ out' = [out EXCEPT ![r] = <<>>]
    /\ connected' = connected \cap Referenced(client, gen')
    /\ UNCHANGED <<schema, client, stop_flag, listening, val, stopreq,
                   cbraised, loopexit, dvars, yvars, xvars>>

\* Line 116: the client object of this call.
R116(r) ==
    /\ pc[r] = "R116"
    /\ gen' = [gen EXCEPT ![r].cli = ReadClient]
    /\ peer' = IF ReadClient = 0 THEN peer
               ELSE [peer EXCEPT ![ReadClient] = port]
    /\ pc' = [pc EXCEPT ![r] = "R117"]
    /\ UNCHANGED <<schema, client, stop_flag, listening, connected,
                   val, log, out, stopreq, cbraised, loopexit, dvars, yvars,
                   port, lost, stamp, ret, cfg>>

\* Lines 117-119: if not client.connect(): return out
R117(r) ==
    /\ pc[r] = "R117"
    /\ \E ok \in (IF lost \/ gen[r].cli = 0 THEN {FALSE} ELSE BOOLEAN) :
          IF ok
          THEN /\ connected' = connected \cup {gen[r].cli}
               /\ pc' = [pc EXCEPT ![r] = "R123"]
          ELSE /\ pc' = [pc EXCEPT ![r] = "returned"]
               /\ UNCHANGED connected
    /\ UNCHANGED <<schema, client, stop_flag, listening,
                   gen, val, log, out, stopreq, cbraised, loopexit, dvars, yvars,
                   xvars>>

\* Lines 121-123, 206-207: the generator is created on the local client and
\* starts with the limit and the descriptor list of that moment.
R123(r) ==
    /\ pc[r] = "R123"
    /\ gen' = [gen EXCEPT ![r] = [cli |-> gen[r].cli, lim |-> address_limit,
                                  sigs |-> signals, i |-> 1]]
    /\ pc' = [pc EXCEPT ![r] = "R207"]
    /\ UNCHANGED <<schema, client, stop_flag, listening, connected,
                   val, log, out, stopreq, cbraised, loopexit, dvars, yvars,
                   xvars>>

\* `continue` inside the generator read() iterates.
RContinue(r) ==
    /\ gen' = [gen EXCEPT ![r].i = @ + 1]
    /\ pc' = [pc EXCEPT ![r] = "R207"]

\* An exception caught by `handler`: the clause inside the generator (line
\* 252) goes on with the next descriptor, the one around the for-loop
\* (lines 125-126) leaves for `finally`.
RCaught(r, handler) ==
    IF handler = "L159"
    THEN /\ pc' = [pc EXCEPT ![r] = "R129"]
         /\ UNCHANGED gen
    ELSE RContinue(r)

\* Lines 207-222, 225, 236, 248-250, as the generator runs under read():
\* when the list is exhausted the for-loop of line 123 ends.
R207(r) ==
    /\ pc[r] = "R207"
    /\ IF EndOfList(r)
       THEN /\ pc' = [pc EXCEPT ![r] = "R129"]
            /\ UNCHANGED gen
       ELSE IF \/ OutOfRange(gen[r].lim, Cur(r).address, Cur(r).length)
               \/ ~Supported(Cur(r).length)
            THEN RContinue(r)
            ELSE /\ pc' = [pc EXCEPT ![r] = "R182"]
                 /\ UNCHANGED gen
    /\ UNCHANGED <<schema, client, stop_flag, listening, connected,
                   val, log, out, stopreq, cbraised, loopexit, dvars, yvars,
                   xvars>>

\* Lines 227-234, 239-246 under read(): too few registers -> continue, else
\* decode and yield.
RDecoded(r, kind, regs) ==
    IF kind = "ok"
    THEN /\ val' = [val EXCEPT ![r] = Value(Cur(r), regs)]
         /\ pc' = [pc EXCEPT ![r] = "R124"]
         /\ UNCHANGED gen
    ELSE /\ RContinue(r)
         /\ UNCHANGED val

\* Line 182 under read(): the holding-register read.
R182(r) ==
    /\ pc[r] = "R182"
    /\ \E res \in ReadOutcomes(IF gen[r].cli \in connected THEN gen[r].cli ELSE 0) :
          /\ log' = [log EXCEPT ![r] = Append(@, Request(r, "HR", res))]
          /\ stamp' = [stamp EXCEPT ![r] = IF res = "ok" THEN port ELSE @]
          /\ IF IsFailed(res)
             THEN /\ pc' = [pc EXCEPT ![r] = "R184"]
                  /\ UNCHANGED <<gen, val>>
             ELSE IF res = "raise"
             THEN /\ RCaught(r, ReadHandler)
                  /\ UNCHANGED val
             ELSE RDecoded(r, res, _read_hr(Cur(r).address, Cur(r).length))
    /\ UNCHANGED <<schema, client, stop_flag, listening, connected,
                   out, stopreq, cbraised, loopexit, dvars, yvars,
                   port, peer, lost, ret, cfg>>

\* Lines 184-187, 190-202 under read(): the input-register read.
R184(r) ==
    /\ pc[r] = "R184"
    /\ \E res \in ReadOutcomes(IF gen[r].cli \in connected THEN gen[r].cli ELSE 0) :
          /\ log' = [log EXCEPT ![r] = Append(@, Request(r, "IR", res))]
          /\ stamp' = [stamp EXCEPT ![r] = IF res = "ok" THEN port ELSE @]
          /\ IF IsFailed(res)
             THEN IF RoundsDone(r) < MaxRounds(Retry)
                  THEN /\ pc' = [pc EXCEPT ![r] = "R182"]
                       /\ UNCHANGED <<gen, val>>
                  ELSE /\ RContinue(r)
                       /\ UNCHANGED val
             ELSE IF res = "raise"
             THEN /\ RCaught(r, ReadHandler)
                  /\ UNCHANGED val
             ELSE RDecoded(r, res, _read_ir(Cur(r).address, Cur(r).length))
    /\ UNCHANGED <<schema, client, stop_flag, listening, connected,
                   out, stopreq, cbraised, loopexit, dvars, yvars,
                   port, peer, lost, ret, cfg>>

\* Line 124: out.append(payload)
R124(r) ==
    /\ pc[r] = "R124"
    /\ out' = [out EXCEPT ![r] = Append(@,
                 [sig |-> gen[r].i, name |-> Cur(r).name,
                  value |-> val[r], cb |-> "returned",
                  at |-> Len(log[r]), stopped |-> stop_flag,
                  port |-> stamp[r],
                  peer |-> IF gen[r].cli = 0 THEN 0 ELSE peer[gen[r].cli],
                  ts |-> ts[r]])]
    /\ RContinue(r)
    /\ val' = [val EXCEPT ![r] = NoValue]
    /\ stamp' = [stamp EXCEPT ![r] = 0]
    /\ UNCHANGED <<schema, client, stop_flag, listening, connected,
                   log, stopreq, cbraised, loopexit, dvars, yvars,
                   port, peer, lost, ret, cfg>>

\* Lines 127-132: finally: client.close(); return out
R129(r) ==
    /\ pc[r] = "R129"
    /\ connected' = connected \ {gen[r].cli}
    /\ pc' = [pc EXCEPT ![r] = "returned"]
    /\ UNCHANGED <<schema, client, stop_flag, listening,
                   gen, val, log, out, stopreq, cbraised, loopexit, dvars, yvars,
                   xvars>>

RStep(r) ==
    \/ R116(r) \/ R117(r) \/ R123(r) \/ R207(r) \/ R182(r) \/ R184(r)
    \/ R124(r) \/ R129(r)

(***************************************************************************)
(* Schemas the driver is configured with                                   *)
(***************************************************************************)
Desc(n, a, l, s) == [name |-> n, address |-> a, length |-> l, scale |-> s]

Master ==
    << Desc("a", 6, 2, 1), Desc("b", 7, 2, 1), Desc("c", 7, 1, 2),
       Desc("e", 5, 3, 1) >>

\* The sub-lists of Master with at most MaxSignals descriptors.
SubList(picked) ==
    LET RECURSIVE Take(_)
        Take(k) == IF k = 0 THEN <<>>
                   ELSE IF k \in picked THEN Append(Take(k - 1), Master[k])
                   ELSE Take(k - 1)
    IN  Take(Len(Master))

Schemas ==
    { SubList(picked) : picked \in { q \in SUBSET (1..Len(Master)) :
                                        Cardinality(q) <= MaxSignals } }

Limits == { <<>>, <<6>>, <<7>> }

(***************************************************************************)
(* configure (lines 80-111), executed by one thread, one action per step.  *)
(* The argument is the dschema dict: an option that is absent is <<>>, one *)
(* that is present is <<value>>; `bad` holds the positions of the          *)
(* descriptors whose length or address int() rejects (lines 97-98).        *)
(***************************************************************************)
Arg(wo, bo, lim, sigs, bad) ==
    [word_order |-> wo, byte_order |-> bo, address_limit |-> lim,
     signals |-> sigs, bad |-> bad]

NoArg == Arg(<<>>, <<>>, <<>>, <<>>, {})

CfgArgs ==
    { Arg(<<"little">>, <<>>, << <<7>> >>,
          << <<Master[1], Desc("z", -1, 1, 1), Master[3]>> >>, {}),
      Arg(<<>>, <<"little">>, << <<>> >>,
          << <<Desc("y", 3, 0, 1), Master[2]>> >>, {}),
      Arg(<<>>, <<>>, <<>>, << <<Master[3], Master[2]>> >>, {2}),
      Arg(<<"little">>, <<"little">>, << <<6>> >>,
          << <<Master[3], Master[2]>> >>, {2}),
      Arg(<<"big">>, <<>>, <<>>, <<>>, {}) }

\* The arguments used while a polling loop runs: the signals lists alone.
CfgArgsPoll ==
    { Arg(<<>>, <<>>, <<>>, a.signals, a.bad) :
         a \in { x \in CfgArgs : x.signals # <<>> } }

\* No configure call is under way; `old` and `was` hold the descriptor
\* list and the options the driver had when the last call was made.
CfgIdle ==
    [pc |-> "idle", arg |-> NoArg, filtered |-> <<>>, k |-> 0,
     old |-> <<>>, was |-> <<>>, ret |-> ""]

\* Variant: the address is not tested.
ValidLengthOnly(s) == s.length > 0

\* Line 99: if leng > 0 and addr >= 0
Valid(s) == s.length > 0 /\ s.address >= 0

\* Variant: the stored list is emptied and filled in place.
StoredInPlace(current, built) == built

\* Lines 95-102: what self._signals holds while the filter loop runs.  The
\* loop appends to the local `filtered`; the field is not touched.
Stored(current, built) == current

\* A thread calls configure(dschema).
Configure(arg) ==
    /\ cfg.pc = "idle"
    /\ cfg' = [pc |-> "C86", arg |-> arg, filtered |-> <<>>, k |-> 0,
               old |-> signals,
               was |-> <<word_order, byte_order, address_limit>>, ret |-> ""]
    /\ UNCHANGED <<schema, client, stop_flag, listening, connected, pc, gen,
                   val, log, out, stopreq, cbraised, loopexit, dvars, yvars,
                   port, peer, lost, stamp, ret>>

\* Lines 86-87: word_order
C86 ==
    /\ cfg.pc = "C86"
    /\ word_order' = IF cfg.arg.word_order # <<>> THEN cfg.arg.word_order[1]
                     ELSE word_order
    /\ cfg' = [cfg EXCEPT !.pc = "C88"]
    /\ UNCHANGED <<signals, byte_order, address_limit, client, stop_flag,
                   listening, connected, pc, gen, val, log, out, stopreq,
                   cbraised, loopexit, dvars, yvars, port, peer, lost, stamp, ret>>

\* Lines 88-89: byte_order
C88 ==
    /\ cfg.pc = "C88"
    /\ byte_order' = IF cfg.arg.byte_order # <<>> THEN cfg.arg.byte_order[1]
                     ELSE byte_order
    /\ cfg' = [cfg EXCEPT !.pc = "C90"]
    /\ UNCHANGED <<signals, word_order, address_limit, client, stop_flag,
                   listening, connected, pc, gen, val, log, out, stopreq,
                   cbraised, loopexit, dvars, yvars, port, peer, lost, stamp, ret>>

\* Lines 90-95: address_limit; then, with a signals list, filtered = []
C90 ==
    /\ cfg.pc = "C90"
    /\ address_limit' = IF cfg.arg.address_limit # <<>>
                        THEN cfg.arg.address_limit[1] ELSE address_limit
    /\ cfg' = IF cfg.arg.signals # <<>>
              THEN [cfg EXCEPT !.pc = "C96", !.filtered = <<>>, !.k = 1]
              ELSE [cfg EXCEPT !.pc = "C105"]
    /\ UNCHANGED <<signals, word_order, byte_order, client, stop_flag,
                   listening, connected, pc, gen, val, log, out, stopreq,
                   cbraised, loopexit, dvars, yvars, port, peer, lost, stamp, ret>>

\* Lines 96-102, 109-111: one iteration of the filter loop.  A field int()
\* rejects raises; the except clause logs and configure returns False.
C96 ==
    /\ cfg.pc = "C96"
    /\ cfg.k <= Len(cfg.arg.signals[1])
    /\ LET s == cfg.arg.signals[1][cfg.k] IN
       IF cfg.k \in cfg.arg.bad
       THEN /\ cfg' = [cfg EXCEPT !.pc = "idle", !.ret = "False"]
            /\ UNCHANGED signals
       ELSE /\ cfg' = [cfg EXCEPT !.k = @ + 1,
                                  !.filtered = IF Valid(s) THEN Append(@, s) ELSE @]
            /\ signals' = Stored(signals, cfg'.filtered)
    /\ UNCHANGED <<word_order, byte_order, address_limit, client, stop_flag,
                   listening, connected, pc, gen, val, log, out, stopreq,
                   cbraised, loopexit, dvars, yvars, port, peer, lost, stamp, ret>>

\* Line 103: self._signals = filtered
C103 ==
    /\ cfg.pc = "C96"
    /\ cfg.k > Len(cfg.arg.signals[1])
    /\ signals' = cfg.filtered
    /\ cfg' = [cfg EXCEPT !.pc = "C105"]
    /\ UNCHANGED <<word_order, byte_order, address_limit, client, stop_flag,
                   listening, connected, pc, gen, val, log, out, stopreq,
                   cbraised, loopexit, dvars, yvars, port, peer, lost, stamp, ret>>

\* Lines 105-108: log and return True
C105 ==
    /\ cfg.pc = "C105"
    /\ cfg' = [cfg EXCEPT !.pc = "idle", !.ret = "True"]
    /\ UNCHANGED <<schema, client, stop_flag, listening, connected, pc, gen,
                   val, log, out, stopreq, cbraised, loopexit, dvars, yvars,
                   port, peer, lost, stamp, ret>>

CfgStep == C86 \/ C88 \/ C90 \/ C96 \/ C103 \/ C105

(***************************************************************************)
(* connect (lines 61-78) and the transport                                 *)
(***************************************************************************)
Ports == {5021, 5022}

\* A field of the dconn dict: absent, a number, or text int() rejects.
Absent == [kind |-> "absent", v |-> 0]
Num(n) == [kind |-> "int", v |-> n]
Text == [kind |-> "text", v |-> 0]

\* Lines 28-32: int(v), or the default when int() raises.
_to_int(v, default) == IF v.kind = "int" THEN v.v ELSE default

\* The dconn dicts connect is called with; an absent host is <<>>.
DConn(h, p) == [host |-> h, port |-> p]
DConns ==
    { DConn(h, p) : h \in {<<>>, <<"plc">>},
                    p \in {Absent, Text} \cup { Num(n) : n \in Ports } }

NoCall == [arg |-> DConn(<<>>, Absent), ret |-> ""]

\* Lines 67-72: driver_id is "modbus_tcp_" followed by 1 for port 5021, by
\* 2 for port 5022 and by the port number otherwise; the id is held as the
\* pair of prefix and suffix.
DriverId(p) ==
    IF p = 5021 THEN <<"modbus_tcp", 1>>
    ELSE IF p = 5022 THEN <<"modbus_tcp", 2>>
    ELSE <<"modbus_tcp", p>>

\* Variant: connect() dials the endpoint it has just stored.
OpenAfterConnectEager(open) == open \cup {FreshClient}

\* Lines 61-78: connect() constructs no client and dials nothing; the
\* sockets open after the call are those open before it.
OpenAfterConnect(open) == open

\* connect(dconn), lines 61-78: stores host, port (slave_id and driver_id
\* along with it) and returns True.  dict.get hands an absent field the
\* value the driver holds; _to_int is called with its default of 0.
Connect(d) ==
    /\ host' = IF d.host = <<>> THEN host ELSE d.host[1]
    /\ port' = IF d.port = Absent THEN port ELSE _to_int(d.port, 0)
    /\ connected' = OpenAfterConnect(connected)
    /\ driver_id' = DriverId(port')
    /\ conn' = [arg |-> d, ret |-> "True"]
    /\ UNCHANGED <<schema, client, stop_flag, listening, pc, gen,
                   val, log, out, stopreq, cbraised, loopexit, dvars,
                   timed, now, ts, last, rtu, early, ctl, gw,
                   peer, lost, stamp, ret, cfg>>

\* The transport goes down while a polling loop is running.
Lose ==
    /\ ~lost
    /\ \E t \in Threads : InLoop(t)
    /\ lost' = TRUE
    /\ UNCHANGED <<schema, client, stop_flag, listening, connected, pc, gen,
                   val, log, out, stopreq, cbraised, loopexit, dvars, yvars,
                   port, peer, stamp, ret, cfg>>

(***************************************************************************)
(* The serial driver (modbus_rtu_driver.py).  `rtu` holds its fields       *)
(* (read_start_address, read_end_address, signal_map, whether the client   *)
(* is connected), the locals of _run_loop (count, the registers of the     *)
(* response, the index of the for-loop) and the history of the cycle in    *)
(* progress: the requests issued and the values handed to the callback.    *)
(***************************************************************************)
\* Lines 89, 145, 146: item.get("length", 1), .get("scale", 1), .get("offset", 0)
RLength(s) == IF "length" \in DOMAIN s THEN s.length ELSE 1
RScale(s) == IF "scale" \in DOMAIN s THEN s.scale ELSE 1
ROffset(s) == IF "offset" \in DOMAIN s THEN s.offset ELSE 0

MaxOf(S) == CHOOSE m \in S : \A x \in S : x <= m

\* Lines 88-91: max(item["address"] + item.get("length", 1) for item in signal_map)
ReadEnd(map) == MaxOf({ map[k].address + RLength(map[k]) : k \in 1..Len(map) })

\* Line 130: count = self.read_end_address - self.read_start_address + 1
Count(start, end) == end - start + 1

\* The config dicts configure is called with: read_start_address and the
\* signal map loaded from signal_config_file.
RtuConfigs ==
    { [start |-> 0,
       map |-> << [name |-> "a", address |-> 0],
                  [name |-> "b", address |-> 1, length |-> 1, scale |-> 2, offset |-> 1] >>],
      [start |-> 0,
       map |-> << [name |-> "a", address |-> 0, length |-> 2],
                  [name |-> "b", address |-> 2, length |-> 1] >>],
      [start |-> 4,
       map |-> << [name |-> "a", address |-> 4, length |-> 1],
                  [name |-> "b", address |-> 6, length |-> 1, scale |-> 2] >>],
      [start |-> 2,
       map |-> << [name |-> "a", address |-> 2, length |-> 2],
                  [name |-> "b", address |-> 4, length |-> 2] >>],
      [start |-> 3,
       map |-> << [name |-> "a", address |-> 3] >>] }

RtuInit ==
    [pc |-> "new", start |-> 0, end |-> 0, map |-> <<>>, open |-> FALSE,
     count |-> 0, regs |-> <<>>, i |-> 0, log |-> <<>>, out |-> <<>>,
     exit |-> "none", stopped |-> FALSE]

\* Lines 130-150: _run_loop is executing.
RtuLoop == {"R132", "R141", "R150"}

\* The fields of the TCP driver and its threads, which the serial driver
\* does not share.
tcpvars ==
    <<schema, client, stop_flag, listening, connected, pc, gen, val, log,
      out, stopreq, cbraised, loopexit, dvars, xvars, tvars, host, conn,
      driver_id, early, ctl, gw>>

\* configure(config), lines 79-109: stores the start address and the
\* signal map, computes read_end_address and connects the serial client;
\* when the connect fails, ConnectionError leaves configure and
\* self.client stays None.
RtuConfigure(c) ==
    /\ rtu.pc = "new"
    /\ \E ok \in BOOLEAN :
          rtu' = [rtu EXCEPT !.start = c.start, !.map = c.map,
                             !.end = ReadEnd(c.map), !.open = ok,
                             !.pc = IF ok THEN "ready" ELSE "new"]
    /\ UNCHANGED tcpvars

\* start(), lines 115-117 and 130: RuntimeError without a connected
\* client; else _run_loop begins and computes count.
RtuStart ==
    /\ rtu.pc \in {"new", "ready"}
    /\ rtu' = IF rtu.open
              THEN [rtu EXCEPT !.pc = "R132", !.count = Count(rtu.start, rtu.end),
                               !.log = <<>>, !.out = <<>>, !.exit = "none",
                               !.stopped = FALSE]
              ELSE [rtu EXCEPT !.exit = "RuntimeError"]
    /\ UNCHANGED tcpvars

\* Lines 132-140: one holding-register request for the block.  The device
\* answers with `count` registers or with an error response; on a client
\* closed by stop() the request raises and the exception leaves _run_loop.
Rtu132 ==
    /\ rtu.pc = "R132"
    /\ \E res \in (IF rtu.open THEN {"ok", "err"} ELSE {"raise"}) :
          rtu' = [rtu EXCEPT
                    !.log = Append(@, [addr |-> rtu.start, count |-> rtu.count,
                                       res |-> res]),
                    !.regs = IF res = "ok"
                             THEN [k \in 1..rtu.count |-> HoldingWord(rtu.start + k - 1)]
                             ELSE <<>>,
                    !.i = 0,
                    !.pc = IF res = "ok" THEN "R141"
                           ELSE IF res = "err" THEN "R150" ELSE "ended",
                    !.exit = IF res = "raise" THEN "io" ELSE @]
    /\ UNCHANGED tcpvars

\* Lines 147-149: the value handed to the callback in iteration i (from 0).
RtuValue(map, regs, i) == regs[i + 1] * RScale(map[i + 1]) + ROffset(map[i + 1])

\* Lines 141-149: one iteration of `for i, reg in enumerate(registers)`.
\* The callback returns or raises; nothing in _run_loop or start catches
\* what it raises.
Rtu141 ==
    /\ rtu.pc = "R141"
    /\ IF rtu.i >= Len(rtu.regs)
       THEN rtu' = [rtu EXCEPT !.pc = "R150"]
       ELSE IF rtu.i < Len(rtu.map)
       THEN \E cb \in {"returned", "raised"} :
               rtu' = [rtu EXCEPT
                         !.out = Append(@, [sig |-> rtu.i + 1,
                                            name |-> rtu.map[rtu.i + 1].name,
                                            value |-> RtuValue(rtu.map, rtu.regs, rtu.i),
                                            cb |-> cb]),
                         !.i = @ + 1,
                         !.pc = IF cb = "raised" THEN "ended" ELSE @,
                         !.exit = IF cb = "raised" THEN "callback" ELSE @]
       ELSE rtu' = [rtu EXCEPT !.i = @ + 1]
    /\ UNCHANGED tcpvars

\* Line 150: await asyncio.sleep(2); the next cycle starts.
Rtu150 ==
    /\ rtu.pc = "R150"
    /\ rtu' = [rtu EXCEPT !.pc = "R132", !.log = <<>>, !.out = <<>>,
                          !.regs = <<>>, !.i = 0]
    /\ UNCHANGED tcpvars

\* stop(), lines 123-124: closes the client if it is connected; nothing
\* else is written.  `stopped` notes a stop() made while _run_loop runs.
RtuStop ==
    /\ rtu' = [rtu EXCEPT !.open = FALSE,
                          !.stopped = @ \/ rtu.pc \in RtuLoop]
    /\ UNCHANGED tcpvars

NextRtu ==
    \/ \E c \in RtuConfigs : RtuConfigure(c)
    \/ RtuStart
    \/ Rtu132
    \/ Rtu141
    \/ Rtu150
    \/ RtuStop

\* DriverController.__init__, driver_controller.py line 27: _started is
\* False; `in` and `asked` are the observer's.
CtlInit == [started |-> FALSE, in |-> FALSE, asked |-> FALSE]

(***************************************************************************)
(* UiGateway (uigateway.py): request_data submits _do_request to a pool    *)
(* of two workers, and each _do_request calls _ensure_workflow.            *)
(***************************************************************************)

\* uigateway.py lines 39-41: ThreadPoolExecutor(max_workers=2).
Workers == {"w1", "w2"}

\* The WorkflowController objects the workers can create: one per worker
\* is the most the code allows, since a worker creates one only when it
\* has read self._workflow as None, and no worker writes None back.
Workflows == 1..Cardinality(Workers)

\* uigateway.py lines 44-45: _workflow is None (0 here) and
\* _workflow_listening is False.  `made` counts the WorkflowController
\* objects constructed, `wlistening[f]` is the _listening field of
\* workflow f, `started` counts the listener threads started for the
\* driver, `pc` and `wf` are each worker's position and local `wf`.
GwInit ==
    [workflow |-> 0, flag |-> FALSE, made |-> 0,
     wlistening |-> [f \in Workflows |-> FALSE], started |-> 0,
     pc |-> [w \in Workers |-> "idle"], wf |-> [w \in Workers |-> 0]]

\* request_data, uigateway.py lines 101-109 and 126-135: a free worker
\* takes the submitted _do_request and enters _ensure_workflow.
GRequest(w) ==
    /\ gw.pc[w] = "idle"
    /\ gw' = [gw EXCEPT !.pc[w] = "G178", !.wf[w] = 0]
    /\ UNCHANGED <<driverfields, ctl, rtu>>

\* Line 178-179: if self._workflow is not None: wf = self._workflow
G178(w) ==
    /\ gw.pc[w] = "G178"
    /\ gw' = IF gw.workflow # 0
             THEN [gw EXCEPT !.wf[w] = gw.workflow, !.pc[w] = "G189"]
             ELSE [gw EXCEPT !.pc[w] = "G207"]
    /\ UNCHANGED <<driverfields, ctl, rtu>>

\* Line 207: wf = WorkflowController(*controllers), over the gateway's
\* driver controllers.
G207(w) ==
    /\ gw.pc[w] = "G207"
    /\ gw' = [gw EXCEPT !.made = @ + 1, !.wf[w] = gw.made + 1,
                        !.pc[w] = "G208"]
    /\ UNCHANGED <<driverfields, ctl, rtu>>

\* Line 208: self._workflow = wf
G208(w) ==
    /\ gw.pc[w] = "G208"
    /\ gw' = [gw EXCEPT !.workflow = gw.wf[w], !.pc[w] = "G189"]
    /\ UNCHANGED <<driverfields, ctl, rtu>>

\* Lines 189-190 and 218-219: if not self._workflow_listening:
\* wf.start_listen(); else _ensure_workflow returns.
G189(w) ==
    /\ gw.pc[w] = "G189"
    /\ gw' = [gw EXCEPT !.pc[w] = IF gw.flag THEN "idle" ELSE "W75"]
    /\ UNCHANGED <<driverfields, ctl, rtu>>

\* WorkflowController.start_listen, workflow_controller.py lines 75-77:
\* returns when this workflow's _listening is already set.
W75(w) ==
    /\ gw.pc[w] = "W75"
    /\ gw' = [gw EXCEPT !.pc[w] = IF gw.wlistening[gw.wf[w]]
                                  THEN "G191" ELSE "W80"]
    /\ UNCHANGED <<driverfields, ctl, rtu>>

\* workflow_controller.py lines 80-91: a listener thread is created and
\* started for the driver.
W80(w) ==
    /\ gw.pc[w] = "W80"
    /\ gw' = [gw EXCEPT !.started = @ + 1, !.pc[w] = "W95"]
    /\ UNCHANGED <<driverfields, ctl, rtu>>

\* workflow_controller.py line 95: self._listening = True, last.
W95(w) ==
    /\ gw.pc[w] = "W95"
    /\ gw' = [gw EXCEPT !.wlistening[gw.wf[w]] = TRUE, !.pc[w] = "G191"]
    /\ UNCHANGED <<driverfields, ctl, rtu>>

\* Lines 191 and 220: self._workflow_listening = True
G191(w) ==
    /\ gw.pc[w] = "G191"
    /\ gw' = [gw EXCEPT !.flag = TRUE, !.pc[w] = "idle"]
    /\ UNCHANGED <<driverfields, ctl, rtu>>

GStep(w) ==
    \/ G178(w) \/ G207(w) \/ G208(w) \/ G189(w)
    \/ W75(w) \/ W80(w) \/ W95(w) \/ G191(w)

NextGateway == \E w \in Workers : GRequest(w) \/ GStep(w)

\* The driver after __init__ (lines 42-58), one configure() and one
\* connect(): the schema fields hold a configured schema, the endpoint is
\* set, the runtime fields have their initial values.
RuntimeInit ==
    /\ client = 0
    /\ stop_flag = FALSE
    /\ listening = FALSE
    /\ connected = {}
    /\ pc = [t \in Callers |-> "idle"]
    /\ gen = [t \in Callers |-> NoGen]
    /\ val = [t \in Callers |-> NoValue]
    /\ log = [t \in Callers |-> <<>>]
    /\ out = [t \in Callers |-> <<>>]
    /\ stopreq = [t \in Threads |-> FALSE]
    /\ cbraised = [t \in Threads |-> "no"]
    /\ loopexit = [t \in Threads |-> "none"]
    /\ port = 5021
    /\ peer = [c \in ClientIds |-> 0]
    /\ lost = FALSE
    /\ stamp = [t \in Callers |-> 0]
    /\ ret = [t \in Threads |-> ""]
    /\ cfg = CfgIdle
    /\ now = 1
    /\ ts = [t \in Callers |-> 0]
    /\ last = [t \in Threads |-> 0]
    /\ host = "127.0.0.1"
    /\ conn = NoCall
    /\ rtu = RtuInit
    /\ driver_id = DriverId(5021)
    /\ early = [t \in Threads |-> FALSE]
    /\ ctl = CtlInit
    /\ gw = GwInit

InitDriver ==
    /\ signals \in Schemas
    /\ word_order \in Orders
    /\ byte_order = word_order
    /\ address_limit \in Limits
    /\ RuntimeInit
    /\ d_sig = Desc("", 0, 0, 1)
    /\ d_regs = <<>>
    /\ d_raw = NoValue
    /\ d_out = NoValue

Init ==
    /\ InitDriver
    /\ timed = FALSE

\* Two threads call start_listen on a driver polling one descriptor.
InitListen ==
    /\ Init
    /\ Len(signals) = 1
    /\ signals[1].length = 1
    /\ address_limit = <<>>
    /\ word_order = "big"

Next ==
    \/ \E t \in Threads : Call(t)
    \/ \E t \in Threads : Step(t)
    \/ Stop

Spec == InitListen /\ [][Next]_vars

\* The loop worker keeps running: a thread inside start_listen is scheduled
\* again and again, and every read, callback and sleep returns.
FairSpec == Spec /\ \A t \in Threads : WF_vars(Step(t))

\* One thread calls start_listen, over every schema.
NextPoll ==
    \/ Call("t1")
    \/ Step("t1")
    \/ Stop

SpecPoll == Init /\ [][NextPoll]_vars

\* One thread polls every schema, without a limit and with one decode
\* order; the loop worker keeps running and every request returns or raises.
InitRetry ==
    /\ Init
    /\ address_limit = <<>>
    /\ word_order = "big"

SpecRetry == InitRetry /\ [][NextPoll]_vars

FairRetry == SpecRetry /\ WF_vars(Step("t1"))

\* One thread polls two descriptors while the clock is followed: every
\* sleep moves it on, up to MaxClock.
InitClock ==
    /\ InitDriver
    /\ timed = TRUE
    /\ signals = <<Master[1], Master[3]>>
    /\ address_limit = <<>>
    /\ word_order = "big"

SpecClock == InitClock /\ [][NextPoll]_vars

\* A thread calls read(), over every schema under a limit of 7, while
\* another enters and leaves start_listen: the loop thread is scheduled up
\* to the start of a cycle and again once stop() has been called, read()
\* runs in between.
LoopEdge(t) ==
    \/ L136(t) \/ L140(t) \/ L141(t) \/ L142(t) \/ L146(t)
    \/ L150(t) \/ L163(t) \/ L166(t) \/ L167(t)

NextRead ==
    \/ Call("t1")
    \/ LoopEdge("t1")
    \/ Stop
    \/ Read("r1")
    \/ RStep("r1")

InitRead ==
    /\ Init
    /\ word_order = "big"
    /\ address_limit = <<7>>

SpecRead == InitRead /\ [][NextRead]_vars

\* A driver fresh from __init__ (lines 42-58): configure calls, one after the
\* other.
InitFresh ==
    /\ signals = <<>>
    /\ word_order = "big"
    /\ byte_order = "big"
    /\ address_limit = <<>>
    /\ RuntimeInit
    /\ timed = FALSE
    /\ d_sig = Desc("", 0, 0, 1)
    /\ d_regs = <<>>
    /\ d_raw = NoValue
    /\ d_out = NoValue

NextConfigure ==
    \/ \E arg \in CfgArgs : Configure(arg)
    \/ CfgStep

SpecConfigure == InitFresh /\ [][NextConfigure]_vars

\* A driver fresh from __init__ is set up: connect and configure calls, one
\* after the other.
NextSetup ==
    \/ \E d \in DConns : Connect(d)
    \/ \E arg \in CfgArgs : Configure(arg)
    \/ CfgStep

SpecSetup == InitFresh /\ [][NextSetup]_vars

\* The serial driver, fresh from __init__ (lines 35-46).
SpecRtu == InitFresh /\ [][NextRtu]_vars

\* configure calls while one thread runs start_listen.
NextReconfigure ==
    \/ \E arg \in CfgArgsPoll : Configure(arg)
    \/ CfgStep
    \/ Call("t1")
    \/ Step("t1")
    \/ Stop

SpecReconfigure == InitFresh /\ [][NextReconfigure]_vars

\* connect() calls while one thread runs start_listen.
NextEndpoint ==
    \/ \E d \in DConns : Connect(d)
    \/ Call("t1")
    \/ Step("t1")
    \/ Stop

SpecEndpoint == InitListen /\ [][NextEndpoint]_vars

\* The transport goes down under a running loop; the loop worker keeps
\* running and every request returns or raises.
NextLost ==
    \/ Lose
    \/ Call("t1")
    \/ Step("t1")
    \/ Stop

SpecLost == InitListen /\ [][NextLost]_vars

FairLost == SpecLost /\ WF_vars(Step("t1"))

(***************************************************************************)
(* The decoders on their own: a response of one or two registers is        *)
(* decoded and scaled as lines 229-234 and 241-246 do.  Bytes of two-word  *)
(* inputs stay below 128 so that the 32-bit result fits TLC's integers.    *)
(***************************************************************************)
Bytes16 == {0, 18, 52, 86, 120, 240, 255}
Bytes32 == {0, 18, 52, 86, 120, 127}

Words(bytes) == { hi * 256 + lo : hi \in bytes, lo \in bytes }

\* A register above 16 bits is masked by the decoder (regs[idx] & 0xFFFF).
DecodeInputs ==
    { <<Desc("x", 0, 1, sc), <<w>>>> : sc \in {1, 2}, w \in Words(Bytes16) \cup {65776} }
    \cup { <<Desc("x", 0, 2, 1), <<w0, w1>>>> : w0 \in Words(Bytes32), w1 \in Words(Bytes32) }

InitDecode ==
    /\ signals = <<>>
    /\ word_order \in Orders
    /\ byte_order \in Orders
    /\ address_limit = <<>>
    /\ RuntimeInit
    /\ timed = FALSE
    /\ \E in \in DecodeInputs : d_sig = in[1] /\ d_regs = in[2]
    /\ d_raw = NoValue
    /\ d_out = NoValue

\* Lines 225-234: a one-word signal.
DecodeU16 ==
    /\ d_raw = NoValue
    /\ d_sig.length = 1
    /\ d_raw' = _read_u16_from_regs(d_regs, 0)
    /\ d_out' = Value(d_sig, d_regs)
    /\ UNCHANGED <<schema, client, stop_flag, listening, connected, pc, gen,
                   val, log, out, stopreq, cbraised, loopexit, d_sig, d_regs, xvars,
                   yvars>>

\* Lines 236-246: a two-word signal.
DecodeU32 ==
    /\ d_raw = NoValue
    /\ d_sig.length = 2
    /\ d_raw' = _read_u32_from_regs(d_regs, 0)
    /\ d_out' = Value(d_sig, d_regs)
    /\ UNCHANGED <<schema, client, stop_flag, listening, connected, pc, gen,
                   val, log, out, stopreq, cbraised, loopexit, d_sig, d_regs, xvars,
                   yvars>>

NextDecode == DecodeU16 \/ DecodeU32

\* Descriptors with and without a scale.  Two-word responses stay below
\* 2^30 so that twice their value fits TLC's integers.
Unscaled(n, a, l) == [name |-> n, address |-> a, length |-> l]

BytesScaled == {0, 18, 52}

ScaleInputs ==
    { <<d, <<w>>>> : d \in {Unscaled("x", 0, 1)} \cup { Desc("x", 0, 1, sc) : sc \in {1, 2, 3} },
                     w \in Words(Bytes16) }
    \cup { <<d, <<w0, w1>>>> :
              d \in {Unscaled("x", 0, 2), Desc("x", 0, 2, 1), Desc("x", 0, 2, 2)},
              w0 \in Words(BytesScaled), w1 \in Words(BytesScaled) }

InitScale ==
    /\ signals = <<>>
    /\ word_order \in Orders
    /\ byte_order \in Orders
    /\ address_limit = <<>>
    /\ RuntimeInit
    /\ timed = FALSE
    /\ \E in \in ScaleInputs : d_sig = in[1] /\ d_regs = in[2]
    /\ d_raw = NoValue
    /\ d_out = NoValue

SpecScale == InitScale /\ [][NextDecode]_vars

SpecDecode == InitDecode /\ [][NextDecode]_vars

(***************************************************************************)
(* Properties of the decoders                                              *)
(***************************************************************************)
HiByte(w) == (w \div 256) % 256
LoByte(w) == w % 256

\* The four bytes of the two words, placed as the two orders demand.
Ref32(w0, w1, wo, bo) ==
    LET b == <<HiByte(w0), LoByte(w0), HiByte(w1), LoByte(w1)>>
        p == IF wo = "big"
             THEN (IF bo = "big" THEN <<1, 2, 3, 4>> ELSE <<2, 1, 4, 3>>)
             ELSE (IF bo = "big" THEN <<3, 4, 1, 2>> ELSE <<4, 3, 2, 1>>)
    IN  b[p[1]] * 16777216 + b[p[2]] * 65536 + b[p[3]] * 256 + b[p[4]]

Ref16(w, bo) ==
    IF bo = "big" THEN HiByte(w) * 256 + LoByte(w)
                  ELSE LoByte(w) * 256 + HiByte(w)

\* C8: for every pair of words and each of the four (word_order,
\* byte_order) combinations the u32 decode is the reference value: each
\* word byte-swapped iff byte_order is little, the words reversed iff
\* word_order is little, then (high << 16) | low.  For (0x1234, 0x5678):
\* 0x12345678, 0x56781234, 0x34127856 and 0x78563412.
C8_U32Decode ==
    (d_raw # NoValue /\ d_sig.length = 2) =>
        /\ d_raw = Ref32(d_regs[1], d_regs[2], word_order, byte_order)
        /\ d_regs = <<4660, 22136>> =>
              d_raw = IF word_order = "big"
                      THEN (IF byte_order = "big" THEN 305419896 ELSE 873625686)
                      ELSE (IF byte_order = "big" THEN 1450709556 ELSE 2018915346)

C8_Witness ==
    /\ d_regs = <<4660, 22136>>
    /\ word_order = "little"
    /\ byte_order = "little"
    /\ d_raw = 2018915346

\* C9: the u16 decode returns the word unchanged under byte_order big and
\* with its two bytes swapped under byte_order little, whatever word_order
\* is; raw [0x00F0] with scale 2 under byte_order big yields 480.
C9_U16Decode ==
    (d_raw # NoValue /\ d_sig.length = 1) =>
        /\ d_raw = Ref16(d_regs[1], byte_order)
        /\ d_out = Ref16(d_regs[1], byte_order) * d_sig.scale
        /\ (d_regs = <<240>> /\ d_sig.scale = 2 /\ byte_order = "big") => d_out = 480

C9_Witness ==
    /\ d_regs = <<240>>
    /\ d_sig.scale = 2
    /\ byte_order = "big"
    /\ word_order = "little"
    /\ d_out = 480

(***************************************************************************)
(* Properties of one polling cycle, read off the cycle's history           *)
(***************************************************************************)
\* Descriptors of the current cycle that the generator is done with.
Done(t) == { j \in 1..Len(gen[t].sigs) : j < gen[t].i }

\* Results of the requests issued for descriptor j on a bank.
Results(t, j, bank) ==
    { log[t][k].res : k \in { n \in 1..Len(log[t]) :
                                log[t][n].sig = j /\ log[t][n].bank = bank } }

Requests(t, j) == { k \in 1..Len(log[t]) : log[t][k].sig = j }

\* Payloads of descriptor j handed to on_signal.
Emitted(t, j) == { k \in 1..Len(out[t]) : out[t][k].sig = j }

LastOffset(s) == s.address + s.length - 1

\* A descriptor the cycle has to read: one or two words, inside the limit.
Pollable(t, j) ==
    /\ gen[t].sigs[j].length \in {1, 2}
    /\ gen[t].lim # <<>> => LastOffset(gen[t].sigs[j]) <= gen[t].lim[1]

\* The cycle is over only when every descriptor has been gone through.
WholeCycle(t) == pc[t] = "L158" => gen[t].i = Len(gen[t].sigs) + 1

FailModes == {"err", "none", "raise"}

\* The primary read failed and no secondary read came back with a response.
BothFailed(t, j) ==
    /\ Results(t, j, "HR") \cap FailModes # {}
    /\ Results(t, j, "IR") \subseteq FailModes

\* C4: when both bank reads of a signal fail (error response, None or a
\* raised exception), no reading is emitted for that signal in that cycle,
\* no exception leaves the polling loop, and every later signal of the
\* schema is still attempted in the same cycle.
C4_BothFailSkips ==
    \A t \in Threads :
        /\ loopexit[t] # "error"
        /\ WholeCycle(t)
        /\ \A j \in Done(t) :
              BothFailed(t, j) =>
                 /\ Emitted(t, j) = {}
                 /\ \A n \in Done(t) :
                       (n > j /\ Pollable(t, n)) => Results(t, n, "HR") # {}

C4_Witness ==
    \E t \in Threads :
        /\ pc[t] = "L158"
        /\ Len(gen[t].sigs) = 2
        /\ Results(t, 1, "HR") = {"err"}
        /\ Results(t, 1, "IR") = {"raise"}
        /\ Emitted(t, 1) = {}
        /\ Emitted(t, 2) # {}

\* The secondary read answered in full after the primary read had failed.
SecondaryServed(t, j) ==
    /\ Results(t, j, "HR") \cap {"err", "none"} # {}
    /\ "ok" \in Results(t, j, "IR")

BankValue(s, bank) ==
    Value(s, [k \in 1..s.length |->
                 IF bank = "IR" THEN InputWord(s.address + k - 1)
                                ELSE HoldingWord(s.address + k - 1)])

\* C5: when the primary read of a signal fails and the secondary read of
\* the same address and length succeeds, exactly one reading is emitted for
\* the signal in that cycle, decoded from the registers of the secondary
\* response.
C5_SecondaryDecoded ==
    \A t \in Threads : \A j \in Done(t) :
        SecondaryServed(t, j) =>
           /\ Cardinality(Emitted(t, j)) = 1
           /\ \A k \in Emitted(t, j) :
                 /\ out[t][k].value = BankValue(gen[t].sigs[j], "IR")
                 /\ out[t][k].value # BankValue(gen[t].sigs[j], "HR")
                 /\ out[t][k].name = gen[t].sigs[j].name

C5_Witness ==
    \E t \in Threads : \E j \in Done(t) :
        /\ SecondaryServed(t, j)
        /\ gen[t].sigs[j].length = 2
        /\ Cardinality(Emitted(t, j)) = 1

\* C6: every kind of primary read failure (error response, None, a short
\* or malformed response, an exception raised by the client) is followed by
\* the same read on the secondary bank before the signal is skipped.
C6_FallbackOnAnyFailure ==
    \A t \in Threads : \A j \in Done(t) :
        (Results(t, j, "HR") \ {"ok"} # {}) => Results(t, j, "IR") # {}

\* C7: with address_limit L, a one- or two-word signal is polled iff its
\* last occupied offset is at most L; a skipped signal causes no request on
\* either bank and no reading; no request covers an offset greater than L.
C7_BoundaryGuard ==
    \A t \in Threads :
        gen[t].lim # <<>> =>
           /\ \A k \in 1..Len(log[t]) :
                 log[t][k].addr + log[t][k].count - 1 <= gen[t].lim[1]
           /\ \A j \in Done(t) :
                 LET s == gen[t].sigs[j] IN
                 /\ s.length \in {1, 2} =>
                       (Results(t, j, "HR") # {} <=> LastOffset(s) <= gen[t].lim[1])
                 /\ LastOffset(s) > gen[t].lim[1] =>
                       (Requests(t, j) = {} /\ Emitted(t, j) = {})

C7_Witness ==
    \E t \in Threads :
        /\ pc[t] = "L158"
        /\ gen[t].lim = <<7>>
        /\ Len(gen[t].sigs) = 2
        /\ gen[t].sigs[1].address = 6 /\ gen[t].sigs[1].length = 2
        /\ gen[t].sigs[2].address = 7 /\ gen[t].sigs[2].length = 2
        /\ Emitted(t, 1) # {}
        /\ Requests(t, 2) = {}

\* C10: an exception raised by on_signal for one reading neither ends the
\* loop nor keeps the remaining readings of the cycle, or those of later
\* cycles, from being delivered.
C10_CallbackIsolated ==
    \A t \in Threads :
        cbraised[t] # "no" =>
           /\ loopexit[t] # "error"
           /\ WholeCycle(t)
           /\ \A j \in Done(t) : "ok" \in Results(t, j, "HR") \cup Results(t, j, "IR")
                                    => Emitted(t, j) # {}

C10_Witness ==
    \E t \in Threads :
        /\ cbraised[t] = "earlier"
        /\ pc[t] = "L158"
        /\ Len(out[t]) = 2
        /\ out[t][1].cb = "raised"
        /\ out[t][2].cb = "returned"

(***************************************************************************)
(* Properties of start_listen / stop                                       *)
(***************************************************************************)
\* Lines 146-168: the call got past connect(), so it opened a connection.
PastConnect(t) == pc[t] \in {"L146"} \cup LoopLines \cup {"L163", "L166", "L167"}

\* C1: under any interleaving of start_listen calls on one driver there is
\* at most one polling loop and at most one open client connection at any
\* moment, and only one call gets as far as opening a connection and
\* running the loop: a call arriving while a start is in progress or a
\* loop is active returns without doing either.
C1_SingleLoop ==
    /\ Cardinality({ t \in Threads : InLoop(t) }) <= 1
    /\ Cardinality(connected) <= 1
    /\ Cardinality({ t \in Threads : PastConnect(t) }) <= 1

\* C2: once stop() has been called while a thread's polling loop is
\* running, that loop starts no cycle after the one in progress (it never
\* again goes from the while test at line 150 into a cycle).
C2_NoCycleAfterStop ==
    [][ \A t \in Threads :
           (stopreq[t] /\ pc[t] = "L150") => pc'[t] # "L153" ]_vars

\* C3: if stop() is called while the polling loop is running, and every
\* read, callback and sleep returns, start_listen eventually returns with
\* the listening flag False (and its connection closed: the finally clause
\* it returns through closes the client before it clears the flag).
C3_StopTerminates ==
    \A t \in Threads :
        stopreq[t] ~> (pc[t] = "idle" /\ ~listening)

(***************************************************************************)
(* Order of a cycle, and stop() in the middle of one                       *)
(***************************************************************************)
\* Position of the descriptor called `name` in the list the cycle iterates.
Pos(t, name) == CHOOSE j \in 1..Len(gen[t].sigs) : gen[t].sigs[j].name = name

\* C11: within one cycle the readings reach the callback in the order of
\* the stored descriptor list, and a reading is delivered before any
\* register request of a later descriptor is issued (and after every
\* request of its own and of the earlier descriptors).
C11_SchemaOrder ==
    \A t \in Threads : \A k \in 1..Len(out[t]) :
        LET i == Pos(t, out[t][k].name) IN
        /\ \A k2 \in 1..Len(out[t]) :
              k < k2 => i < Pos(t, out[t][k2].name)
        /\ \A n \in 1..Len(log[t]) :
              LET j == Pos(t, gen[t].sigs[log[t][n].sig].name) IN
              /\ j > i => n > out[t][k].at
              /\ j <= i => n <= out[t][k].at

C11_Witness ==
    \E t \in Threads :
        /\ Len(gen[t].sigs) = 2
        /\ Len(out[t]) = 2
        /\ out[t][1].name = gen[t].sigs[1].name
        /\ out[t][2].name = gen[t].sigs[2].name
        /\ out[t][1].at < out[t][2].at

\* C12: stop() is observed only at the while test: a cycle during which
\* stop() is called still goes through every remaining descriptor, reads
\* each one that is to be polled and delivers each reading obtained, and
\* the loop is left from the while test only.
C12_StopAtCycleBoundary ==
    \A t \in Threads :
        /\ pc[t] \in {"L163", "L166", "L167"} => loopexit[t] = "stop"
        /\ (stopreq[t] /\ InLoop(t)) =>
              /\ WholeCycle(t)
              /\ \A j \in Done(t) :
                    /\ Pollable(t, j) => Results(t, j, "HR") # {}
                    /\ "ok" \in Results(t, j, "HR") \cup Results(t, j, "IR")
                          => Emitted(t, j) # {}

C12_Witness ==
    \E t \in Threads :
        /\ pc[t] = "L158"
        /\ stopreq[t]
        /\ Len(out[t]) = 2
        /\ ~out[t][1].stopped
        /\ out[t][2].stopped

(***************************************************************************)
(* Properties of configure                                                 *)
(***************************************************************************)
\* The descriptors of `list` with length > 0 and address >= 0, in order.
Filtered(list) ==
    LET Keep(s) == s.length > 0 /\ s.address >= 0
    IN  SelectSeq(list, Keep)

\* A configure call has returned and its argument carried a signals list.
Returned(result) ==
    cfg.pc = "idle" /\ cfg.arg.signals # <<>> /\ cfg.ret = result

\* C13: at every moment every stored descriptor has length > 0 and
\* address >= 0; a configure() whose signals list holds invalid descriptors
\* still returns True, and when configure() has returned True the stored
\* list is the supplied list without its invalid descriptors, order kept.
C13_ConfigureFilters ==
    /\ \A k \in 1..Len(signals) :
          signals[k].length > 0 /\ signals[k].address >= 0
    /\ (cfg.pc = "idle" /\ cfg.arg.signals # <<>> /\ cfg.arg.bad = {})
          => cfg.ret = "True"
    /\ Returned("True") => signals = Filtered(cfg.arg.signals[1])

C13_Witness ==
    /\ Returned("True")
    /\ Len(cfg.arg.signals[1]) = 3
    /\ cfg.old = <<Master[2]>>
    /\ signals = <<Master[1], Master[3]>>

\* The lists a configure call can store in full.
WholeLists ==
    {<<>>} \cup { Filtered(a.signals[1]) :
                    a \in { x \in CfgArgs : x.signals # <<>> /\ x.bad = {} } }

\* C14: the stored list is the old list up to the assignment at line 103
\* and the new filtered list from then on (the old list for good when the
\* call fails), never part of one and part of the other; a polling cycle
\* running meanwhile iterates, to its end, a list that was stored in full.
C14_AtomicReplace ==
    /\ cfg.pc \in {"C86", "C88", "C90", "C96"} => signals = cfg.old
    /\ (cfg.pc = "C105" /\ cfg.arg.signals # <<>>)
          => signals = Filtered(cfg.arg.signals[1])
    /\ Returned("True") => signals = Filtered(cfg.arg.signals[1])
    /\ Returned("False") => signals = cfg.old
    /\ \A t \in Threads :
          /\ gen[t].sigs \in WholeLists
          /\ WholeCycle(t)

C14_Witness ==
    \E t \in Threads :
        /\ pc[t] = "L182"
        /\ gen[t].i = 2
        /\ gen[t].sigs = <<Master[1], Master[3]>>
        /\ cfg.old = gen[t].sigs
        /\ Returned("True")
        /\ signals = <<Master[2]>>

(***************************************************************************)
(* Failures of the transport                                               *)
(***************************************************************************)
\* C15: when the transport is lost under a running polling loop (every
\* register read raises from then on), the loop ends: start_listen returns
\* without an exception, with the listening flag False and the client
\* closed.
C15_LostTransportEndsLoop ==
    \A t \in Threads :
        (lost /\ InLoop(t)) ~>
            (pc[t] = "idle" /\ ret[t] = ReturnsNone /\ ~listening /\ connected = {})

\* C16: when connect() fails at line 142, start_listen ends without entering
\* the loop: no register request, no callback, the listening flag still
\* False; and what the caller gets differs from what it gets from a call
\* that ran the loop and was stopped.
C16_ConnectFailSurfaced ==
    [][ \A t \in Threads :
           (pc[t] = "L142" /\ client # 0 /\ pc'[t] = "idle") =>
              /\ ~listening'
              /\ log'[t] = <<>> /\ out'[t] = <<>>
              /\ ret'[t] # ReturnsNone ]_vars

\* C17: whenever start_listen returns after having entered the polling
\* loop, by stop() or by an exception, the driver holds no client
\* reference, no connection is open and the listening flag is False.
C17_ReleasedOnReturn ==
    [][ \A t \in Threads :
           (pc[t] = "L167" /\ pc'[t] = "idle") =>
              /\ client' = 0
              /\ connected' = {}
              /\ ~listening' ]_vars

(***************************************************************************)
(* Bounded retry                                                           *)
(***************************************************************************)
RequestsOn(t, j, bank) ==
    { k \in Requests(t, j) : log[t][k].bank = bank }

\* At most two rounds of one holding and one input read per signal.
BoundedRounds(t) ==
    /\ \A j \in 1..Len(gen[t].sigs) :
          /\ Cardinality(RequestsOn(t, j, "HR")) <= 2
          /\ Cardinality(RequestsOn(t, j, "IR")) <= Cardinality(RequestsOn(t, j, "HR"))
          /\ Cardinality(Requests(t, j)) <= 4
    /\ Len(log[t]) <= 4 * Len(gen[t].sigs)

\* C18: a failed round of reads is run again at most once and the signal is
\* then given up for the cycle: a signal causes at most 4 register requests
\* per cycle (two rounds of holding + input), and every cycle that is
\* started comes to its end when each request returns.
C18_BoundedRetry ==
    /\ [](\A t \in Threads : BoundedRounds(t))
    /\ \A t \in Threads : (pc[t] = "L153") ~> (pc[t] = "L158")

C18_Witness ==
    \E t \in Threads :
        /\ pc[t] = "L158"
        /\ Len(gen[t].sigs) = 2
        /\ Results(t, 1, "HR") = {"err"}
        /\ Results(t, 1, "IR") = {"none"}
        /\ Cardinality(Requests(t, 1)) = 2
        /\ Requests(t, 2) # {}

(***************************************************************************)
(* The endpoint and the ownership of the connection                        *)
(***************************************************************************)
\* C19: connect() calls made while the polling loop runs do not change the
\* endpoint written into the readings: every reading delivered carries the
\* port the cycle's client was constructed for.
C19_EndpointFrozen ==
    \A t \in Threads : \A k \in 1..Len(out[t]) :
        out[t][k].port = out[t][k].peer

ReadLines == {"L182", "L184"}

\* C20: the client a polling cycle reads on is used by that loop alone: no
\* two threads are issuing register reads on one client object, and while
\* a cycle runs its client is still the driver's client and still open
\* (no other operation has replaced or closed it).
C20_ExclusiveClient ==
    /\ \A t, u \in Threads :
          (t # u /\ pc[t] \in ReadLines /\ pc[u] \in ReadLines /\ gen[t].cli # 0)
             => gen[t].cli # gen[u].cli
    /\ \A t \in Threads :
          pc[t] \in ReadLines \cup {"L207", "L155"} =>
             /\ gen[t].cli = client
             /\ client \in connected

(***************************************************************************)
(* Deliveries of one cycle                                                 *)
(***************************************************************************)
\* A bank answered the read of descriptor j with all its registers.
Answered(t, j) == "ok" \in Results(t, j, "HR") \cup Results(t, j, "IR")

\* C21: in a polling cycle on_signal is invoked at most once per stored
\* descriptor, and exactly once for every descriptor of one or two words
\* inside the limit for which a bank returned all the registers; once the
\* callback has been invoked the loop holds no reading.
C21_OncePerDescriptor ==
    \A t \in Threads :
        /\ \A j \in 1..Len(gen[t].sigs) : Cardinality(Emitted(t, j)) <= 1
        /\ \A j \in Done(t) :
              (Pollable(t, j) /\ Answered(t, j)) => Cardinality(Emitted(t, j)) = 1
        /\ \A j \in Done(t) : Emitted(t, j) # {} => Answered(t, j)
        /\ pc[t] # "L155" => (val[t] = NoValue /\ stamp[t] = 0)

\* A cycle has ended in which one descriptor was delivered from the input
\* bank and another, answered by no bank, was not delivered.
C21_Witness ==
    \E t \in Threads :
        /\ pc[t] = "L158"
        /\ \E j \in Done(t) :
              /\ "ok" \in Results(t, j, "IR")
              /\ Cardinality(Emitted(t, j)) = 1
        /\ \E j \in Done(t) :
              /\ Pollable(t, j)
              /\ ~Answered(t, j)
              /\ Emitted(t, j) = {}

\* C22: across the cycles of one polling loop the timestamps increase:
\* every reading of the cycle in progress carries a timestamp greater than
\* that of every reading delivered in an earlier cycle of the loop.
C22_TimestampsIncrease ==
    \A t \in Threads : \A k \in 1..Len(out[t]) :
        out[t][k].ts > last[t]

\* A third cycle delivers a reading after two cycles that delivered.
C22_Witness ==
    \E t \in Threads :
        /\ last[t] >= 2
        /\ out[t] # <<>>

(***************************************************************************)
(* stop, read and connect: what they touch                                 *)
(***************************************************************************)
\* Everything stop() may not touch: the schema, the endpoint, the client,
\* the connections and the threads inside start_listen, read and configure.
StopFrame ==
    <<schema, host, port, client, connected, peer, listening, pc, gen, val,
      log, out, ret, cfg, conn>>

\* C23: stop() can be called in every state and returns; it sets the stop
\* flag and touches nothing else (no connection opened or closed, schema
\* and endpoint as they were), so a call made when the flag is already set
\* changes nothing at all.
C23_StopIdempotent ==
    /\ [](ENABLED Stop)
    /\ [][ Stop => /\ stop_flag'
                   /\ UNCHANGED StopFrame
                   /\ stop_flag => UNCHANGED <<stop_flag, StopFrame>> ]_vars

\* stop() has been called on a driver no thread has called start_listen on.
C23_Witness ==
    /\ stop_flag
    /\ ~listening
    /\ connected = {}
    /\ \A t \in Threads : pc[t] = "idle" /\ ret[t] = ""

\* The step is one of thread r's steps inside read().
ReadStep(r) == pc'[r] # pc[r] \/ gen'[r] # gen[r]

\* What read() has returned once its connect has succeeded: one pass over
\* the stored descriptors, at most one request per bank and descriptor, and
\* one reading for each descriptor to poll that a bank answered.
OnePass(r) ==
    /\ gen[r].sigs = signals
    /\ gen[r].i = Len(signals) + 1
    /\ \A j \in 1..Len(signals) :
          /\ Cardinality(RequestsOn(r, j, "HR")) <= 1
          /\ Cardinality(RequestsOn(r, j, "IR")) <= 1
          /\ Pollable(r, j) => RequestsOn(r, j, "HR") # {}
          /\ Cardinality(Emitted(r, j)) =
                IF Pollable(r, j) /\ Answered(r, j) THEN 1 ELSE 0

\* C24: read() polls once on a client of its own: the client it reads on
\* is never the polling loop's; the readings it collects are in schema
\* order; when it has returned, its client is closed, and its result is
\* empty if the connect failed and else the outcome of exactly one pass
\* over the stored descriptors; no step of read() changes the listening
\* flag, the stop flag, the loop's client or that client's connection.
C24_ReadOneShot ==
    /\ [](\A r \in Readers :
            /\ gen[r].cli # 0 => gen[r].cli # client
            /\ \A k, n \in 1..Len(out[r]) :
                  k < n => out[r][k].sig < out[r][n].sig
            /\ pc[r] = "returned" =>
                  /\ gen[r].cli \notin connected
                  /\ IF gen[r].i = 0
                     THEN out[r] = <<>> /\ log[r] = <<>>
                     ELSE OnePass(r))
    /\ [][ \A r \in Readers :
             ReadStep(r) =>
                /\ UNCHANGED <<listening, stop_flag, client>>
                /\ (client \in connected) = (client \in connected') ]_vars

\* read() has returned two readings while the polling loop holds its open
\* client.
C24_Witness ==
    \E r \in Readers :
        /\ pc[r] = "returned"
        /\ Len(out[r]) = 2
        /\ listening
        /\ client \in connected

\* C25: connect() does no I/O: a connect call stores the endpoint and
\* leaves the open connections, the client, the descriptor list, the
\* decode options, the listening flag and the stop flag as they were.
C25_ConnectNoIO ==
    [][ \A d \in DConns :
          Connect(d) =>
             /\ UNCHANGED <<connected, client, peer>>
             /\ UNCHANGED <<schema, listening, stop_flag>>
             /\ d.host # <<>> => host' = d.host[1]
             /\ d.port.kind = "int" => port' = d.port.v ]_vars

\* connect() has stored another endpoint on a driver that is not listening
\* and has opened no connection.
C25_Witness ==
    /\ conn.ret = "True"
    /\ host = "plc"
    /\ port = 5022
    /\ connected = {}
    /\ client = 0
    /\ ~listening

(***************************************************************************)
(* Invalid arguments                                                       *)
(***************************************************************************)
\* A dconn dict with a missing host or a missing or non-numeric port.
InvalidConn(d) == d.host = <<>> \/ d.port.kind # "int"

\* C27: a connect() or configure() call given an invalid or missing field
\* has returned failure: a dconn without host or with a missing or
\* non-numeric port, a dschema with a descriptor whose length or address
\* is not a number.
C27_InvalidFieldRejected ==
    /\ (conn.ret # "" /\ InvalidConn(conn.arg)) => conn.ret = "False"
    /\ (cfg.pc = "idle" /\ cfg.ret # "" /\ cfg.arg.bad # {}) => cfg.ret = "False"

(***************************************************************************)
(* Scaling                                                                 *)
(***************************************************************************)
\* The integer the registers of the response decode to.
RefRaw ==
    IF d_sig.length = 1 THEN Ref16(d_regs[1], byte_order)
    ELSE Ref32(d_regs[1], d_regs[2], word_order, byte_order)

\* C26: the value of a reading is the decoded integer (u16 for one word,
\* u32 for two, under the configured byte and word order) multiplied by
\* the descriptor's scale, and the decoded integer itself when the
\* descriptor has no scale.
C26_ValueScaled ==
    d_raw # NoValue =>
        /\ d_raw = RefRaw
        /\ d_out = IF "scale" \in DOMAIN d_sig THEN RefRaw * d_sig.scale
                   ELSE RefRaw

\* A two-word response under a descriptor without scale has been decoded.
C26_Witness ==
    /\ d_raw > 0
    /\ "scale" \notin DOMAIN d_sig
    /\ d_sig.length = 2
    /\ d_out = d_raw

(***************************************************************************)
(* The serial driver                                                       *)
(***************************************************************************)
\* Last register occupied by a signal of the map.
LastWord(map) == MaxOf({ map[k].address + RLength(map[k]) - 1 : k \in 1..Len(map) })

\* C28: a cycle of the serial driver issues one holding-register request,
\* which starts at read_start_address and ends at the last register a
\* signal occupies, max(address + length) - 1: no register short of it, no
\* register beyond it.
C28_RtuSpanExact ==
    /\ Len(rtu.log) <= 1
    /\ rtu.pc \in {"R141", "R150"} => Len(rtu.log) = 1
    /\ \A k \in 1..Len(rtu.log) :
          /\ rtu.log[k].addr = rtu.start
          /\ rtu.log[k].addr + rtu.log[k].count - 1 = LastWord(rtu.map)

\* The value of signal s under the descriptor model of the TCP driver: the
\* words at the signal's own registers, two words combined high word
\* first, scaled and offset.
RtuRef(s, start, regs) ==
    LET at == s.address - start + 1
        raw == IF RLength(s) = 2 THEN regs[at] * 65536 + regs[at + 1]
               ELSE regs[at]
    IN  raw * RScale(s) + ROffset(s)

\* C29: the value the serial driver delivers under a signal's name is
\* derived from the registers at that signal's own offsets in the block
\* read, a two-word signal combining its two words.
C29_RtuOwnRegisters ==
    \A k \in 1..Len(rtu.out) :
        rtu.out[k].value = RtuRef(rtu.map[rtu.out[k].sig], rtu.start, rtu.regs)

\* C30: an exception raised by the callback of the serial driver does not
\* end its polling loop.
C30_RtuCallbackIsolated ==
    rtu.exit # "callback"
(***************************************************************************)
(* stop() of the serial driver while its loop runs.                        *)
(***************************************************************************)

\* C31: once stop() has been called on the serial driver while _run_loop is
\* running, no further request is attempted on the closed client and
\* start() does not end with the exception of a request.
C31_RtuStopEndsLoop ==
    rtu.stopped =>
        /\ rtu.exit # "io"
        /\ \A k \in 1..Len(rtu.log) : rtu.log[k].res # "raise"

(***************************************************************************)
(* DriverController around the driver's loop.                              *)
(***************************************************************************)

\* One DriverController whose start_listen runs on thread t1, and
\* WorkflowController.stop_listen calling its stop().
NextController ==
    \/ Ctl48("t1")
    \/ Step("t1")
    \/ Ctl49("t1")
    \/ CtlStop

SpecController == InitRetry /\ [][NextController]_vars

\* C32: when DriverController.stop() has been called while the
\* controller's start_listen is still executing the driver's loop, the
\* driver's stop flag is set for that loop.
C32_ControllerStopReachesDriver ==
    (ctl.asked /\ InLoop("t1")) => stop_flag

(***************************************************************************)
(* UiGateway._ensure_workflow under concurrent requests.                   *)
(***************************************************************************)

SpecGateway == InitListen /\ [][NextGateway]_vars

\* C33: whatever the interleaving of the requests on the two workers, at
\* most one WorkflowController is constructed and at most one listener
\* thread is started for the driver.
C33_OneWorkflowOneListener ==
    /\ gw.made <= 1
    /\ gw.started <= 1

(***************************************************************************)
(* Requests per signal, in the loop and in read().                         *)
(***************************************************************************)

\* The loop on one thread and read() on another, polling one two-word
\* descriptor.
InitBoth ==
    /\ Init
    /\ signals = <<Master[1]>>
    /\ address_limit = <<>>
    /\ word_order = "big"

NextBoth ==
    \/ Call("t1")
    \/ Step("t1")
    \/ Stop
    \/ Read("r1")
    \/ RStep("r1")

SpecBoth == InitBoth /\ [][NextBoth]_vars

\* C34: in a cycle of the loop and in a read(), a signal has at most one
\* holding-register request and at most one input-register request; the
\* input-register request comes after the holding-register request of the
\* same signal, which failed; no second round is run.
C34_OneRoundPerSignal ==
    \A t \in Callers :
        \A j \in 1..Len(signals) :
            /\ Cardinality(RequestsOn(t, j, "HR")) <= 1
            /\ Cardinality(RequestsOn(t, j, "IR")) <= 1
            /\ \A k \in RequestsOn(t, j, "IR") :
                  \E h \in RequestsOn(t, j, "HR") :
                      h < k /\ IsFailed(log[t][h].res)

\* The loop and read() have each had both reads of the signal fail and
\* have given the signal up: the cycle and the read() are over.
C34_Witness ==
    /\ pc["t1"] = "L158"
    /\ pc["r1"] = "returned"
    /\ \A t \in {"t1", "r1"} :
          /\ Results(t, 1, "HR") = {"err"}
          /\ Results(t, 1, "IR") = {"none"}

(***************************************************************************)
(* stop() called right after start_listen was entered.                     *)
(***************************************************************************)

\* One thread calls start_listen on a driver polling one descriptor and
\* keeps running; stop() is called at any moment.
NextEarly ==
    \/ Call("t1")
    \/ Step("t1")
    \/ StopSeen

FairEarly == InitListen /\ [][NextEarly]_vars /\ WF_vars(Step("t1"))

\* C35: a stop() made after start_listen was entered and before it has
\* cleared the stop flag is not lost: that call of start_listen returns.
C35_EarlyStopKept ==
    \A t \in Threads : early[t] ~> (pc[t] = "idle")

(***************************************************************************)
(* A configure call that fails.                                            *)
(***************************************************************************)

\* C36: after a configure call that returned False, word_order,
\* byte_order, address_limit and the descriptor list are what they were
\* when the call was made.
C36_FailedConfigureKeepsSchema ==
    (cfg.pc = "idle" /\ cfg.ret = "False") =>
        /\ signals = cfg.old
        /\ <<word_order, byte_order, address_limit>> = cfg.was

(***************************************************************************)
(* A descriptor of a length that is not read.                              *)
(***************************************************************************)

\* One thread polls schemas in which a three-word descriptor comes before
\* others, without a limit and under limits of 6 and 7.
InitOdd ==
    /\ signals \in { <<Master[4], Master[1]>>, <<Master[4], Master[3]>>,
                     <<Master[3], Master[4], Master[1]>> }
    /\ word_order = "big"
    /\ byte_order = "big"
    /\ address_limit \in Limits
    /\ RuntimeInit
    /\ timed = FALSE
    /\ d_sig = Desc("", 0, 0, 1)
    /\ d_regs = <<>>
    /\ d_raw = NoValue
    /\ d_out = NoValue

SpecOdd == InitOdd /\ [][NextPoll]_vars

\* C37: a descriptor whose length is neither 1 nor 2 has no register
\* request and no reading in any cycle, with or without address_limit, and
\* the descriptors after it are gone through and, when inside the limit,
\* read.
C37_UnsupportedSkipped ==
    \A t \in Threads :
        /\ WholeCycle(t)
        /\ \A j \in 1..Len(gen[t].sigs) :
              gen[t].sigs[j].length \notin {1, 2} =>
                 /\ Requests(t, j) = {}
                 /\ Emitted(t, j) = {}
                 /\ \A n \in Done(t) :
                       (n > j /\ Pollable(t, n)) => Results(t, n, "HR") # {}

\* Under a limit, a cycle has passed a three-word descriptor and delivered
\* the reading of the descriptor after it.
C37_Witness ==
    /\ pc["t1"] = "L158"
    /\ gen["t1"].lim = <<7>>
    /\ gen["t1"].sigs[1].length = 3
    /\ Requests("t1", 1) = {}
    /\ Emitted("t1", 2) # {}

(***************************************************************************)
(* The timestamp of the readings of one cycle.                             *)
(***************************************************************************)

\* One thread polls two descriptors while the clock is followed and moves
\* on at any moment, up to MaxClock.
NextTick ==
    \/ NextPoll
    \/ Tick

SpecTick == InitClock /\ [][NextTick]_vars

\* C38: the readings delivered in one cycle all carry the same timestamp,
\* and that timestamp is not later than the clock at any register request
\* of the cycle: it was taken before the first of them.
C38_OneTimestampPerCycle ==
    \A t \in Threads :
        \A k \in 1..Len(out[t]) :
            /\ \A m \in 1..Len(out[t]) : out[t][m].ts = out[t][k].ts
            /\ \A n \in 1..Len(log[t]) : out[t][k].ts <= log[t][n].clk

\* A cycle has delivered two readings, and the clock moved between the
\* start of the cycle and its first request and again before its last.
C38_Witness ==
    /\ Len(out["t1"]) = 2
    /\ out["t1"][1].ts < log["t1"][1].clk
    /\ log["t1"][1].clk < log["t1"][Len(log["t1"])].clk

(***************************************************************************)
(* driver_id                                                               *)
(***************************************************************************)

\* The ports connect() is given here: the two with a fixed id, and the
\* ports 1 and 2.
IdPorts == {1, 2, 5021, 5022}

IdConns ==
    { DConn(h, p) : h \in {<<>>, <<"plc">>},
                    p \in {Absent} \cup { Num(n) : n \in IdPorts } }

\* connect() and configure() calls on one driver, one after the other.
NextIds ==
    \/ \E d \in IdConns : Connect(d)
    \/ \E arg \in CfgArgs : Configure(arg)
    \/ CfgStep

SpecIds == InitFresh /\ [][NextIds]_vars

\* C39: the driver_id connect() has set is the id of the driver's port and
\* of no other port.
C39_DriverIdUnique ==
    conn.ret # "" =>
        /\ driver_id = DriverId(port)
        /\ \A q \in IdPorts : q # port => DriverId(q) # driver_id

====
